---- MODULE Spec2Model ----
(***************************************************************************)
(* Schema comparison engine of neo4j-model-comparison: the six similarity  *)
(* calculators, CompositeSimilarity / AdaptiveSimilarity, the greedy 1:1   *)
(* FieldMatcher and the recommendation categorizer of comparator.py.       *)
(*                                                                         *)
(* Numbers.  Scores and confidences are fixed point with four decimals:    *)
(* 10000 stands for 1.0, 9500 for 0.95.  Weights are in hundredths: 35     *)
(* stands for 0.35.  A weighted sum  score * weight  is therefore divided  *)
(* by 100 to come back to four decimals; every sampled score is a multiple *)
(* of 100, so the division is exact.                                       *)
(*                                                                         *)
(* Names (labels, relationship types, property names, calculator inputs)   *)
(* are sequences of one-character strings, so that lower(), isupper(),     *)
(* len() and the camelCase test are computed and not assumed.              *)
(***************************************************************************)
EXTENDS Integers, Sequences, FiniteSets, TLC

VARIABLES
    pc,                 \* position of the run
    backend,            \* environment: what importing / loading the embedding model does
    model_loaded,       \* SemanticSimilarity._model is not None
    use_adaptive,       \* FieldMatcher(use_adaptive=...)
    similarity_threshold, \* FieldMatcher.similarity_threshold
    oracle,             \* environment: what the string / embedding libraries return per name pair
    customer_schema,    \* GraphSchema of the customer
    standard_schema,    \* GraphSchema of the standard
    next_index,         \* index of the next customer element of the running loop
    used_standard_nodes, \* _match_nodes: labels already claimed
    used_standard_rels, \* _match_relationships: types already claimed
    node_matches,       \* results["node_matches"]
    relationship_matches, \* results["relationship_matches"]
    summary,            \* results["summary"]
    enhanced,           \* the additions of _enhance_comparison_results
    text1, text2,       \* arguments of a direct calculate() call
    lib,                \* library outcome for (text1, text2) of a direct call
    callee,             \* which calculate() the direct call went to
    sim_result,         \* the SimilarityResult (or the exception) the direct call gave
    self_weights,       \* CompositeSimilarity.weights
    self_default_weights, \* CompositeSimilarity.default_weights
    weights_aliased,    \* self.weights is self.default_weights
    updates,            \* number of update_weights calls made so far
    cached_schema,      \* transactions._cached_schema
    fetch_count,        \* number of fetch_markdown_content calls made so far
    call_count,         \* number of get_standard_schema calls made so far
    returned_schema,    \* what the last get_standard_schema call returned
    verbose,            \* SchemaComparator.compare_schemas(verbose=...)
    entity_centric      \* SchemaComparator.compare_schemas(entity_centric=...)

vars == << pc, backend, model_loaded, use_adaptive, similarity_threshold, oracle,
           customer_schema, standard_schema, next_index, used_standard_nodes,
           used_standard_rels, node_matches, relationship_matches, summary, enhanced,
           text1, text2, lib, callee, sim_result,
           self_weights, self_default_weights, weights_aliased, updates,
           cached_schema, fetch_count, call_count, returned_schema, verbose, entity_centric >>

weight_vars == << self_weights, self_default_weights, weights_aliased, updates >>

orchestrator_vars == << cached_schema, fetch_count, call_count, returned_schema,
                        verbose, entity_centric >>

NoValue == "none"

(***************************************************************************)
(* Fractions.  Averages and quotients (the mean of the property            *)
(* confidences, the compliance score, v / weight_sum) are kept exact, as   *)
(* num / den in lowest terms with den > 0.                                 *)
(***************************************************************************)
abs(x) == IF x < 0 THEN 0 - x ELSE x

RECURSIVE gcd(_, _)
gcd(a, b) == IF b = 0 THEN abs(a) ELSE gcd(b, a % b)

in_lowest_terms(num, den, g) == [ num |-> num \div g, den |-> den \div g ]

Fraction(num, den) == in_lowest_terms(num, den, gcd(num, den))

\* a + b
frac_add(a, b) ==
    Fraction(a.num * (b.den \div gcd(a.den, b.den)) + b.num * (a.den \div gcd(a.den, b.den)),
             a.den * (b.den \div gcd(a.den, b.den)))

\* a <= b
frac_le(a, b) ==
    a.num * (b.den \div gcd(a.den, b.den)) <= b.num * (a.den \div gcd(a.den, b.den))

\* a >= x, x in ten-thousandths
frac_ge_score(a, x) == a.num * 10000 >= x * a.den

(***************************************************************************)
(* Characters and strings                                                  *)
(***************************************************************************)
UpperChars == {"A", "B", "C", "D", "E", "H", "I", "M", "N", "O", "R", "S", "T", "U", "X", "Z"}
LowerChars == {"a", "b", "c", "d", "e", "h", "i", "m", "n", "o", "r", "s", "t", "u", "x", "z"}

\* str.lower() on one character
char_lower(c) ==
    CASE c = "A" -> "a" [] c = "B" -> "b" [] c = "C" -> "c" [] c = "D" -> "d"
      [] c = "E" -> "e" [] c = "H" -> "h" [] c = "I" -> "i" [] c = "M" -> "m"
      [] c = "N" -> "n" [] c = "O" -> "o" [] c = "R" -> "r" [] c = "S" -> "s"
      [] c = "T" -> "t" [] c = "U" -> "u" [] c = "X" -> "x" [] c = "Z" -> "z" [] OTHER -> c

\* str.lower()
str_lower(s) == [i \in 1..Len(s) |-> char_lower(s[i])]

\* str.isupper(): at least one cased character and no lowercase one
str_isupper(s) ==
    /\ \E i \in 1..Len(s) : s[i] \in UpperChars
    /\ \A i \in 1..Len(s) : s[i] \notin LowerChars

\* Python truthiness of a str
is_empty(s) == Len(s) = 0

\* the test of the case-only override: a.lower() == b.lower() and a != b
is_case_only_diff(a, b) == str_lower(a) = str_lower(b) /\ a # b

(***************************************************************************)
(* SimilarityResult                                                        *)
(***************************************************************************)
Techniques == << "levenshtein", "jaro_winkler", "fuzzy", "abbreviation", "semantic", "contextual" >>
TechniqueSet == { Techniques[i] : i \in 1..Len(Techniques) }

SimilarityResult(score, confidence, technique, metadata) ==
    [ raised |-> FALSE, score |-> score, confidence |-> confidence,
      technique |-> technique, metadata |-> metadata ]

\* a calculate() call that ends in an exception instead of a result
Raised(technique) ==
    [ raised |-> TRUE, score |-> 0, confidence |-> 0,
      technique |-> technique, metadata |-> [ reason |-> "exception" ] ]

EmptyStringResult(technique) ==
    SimilarityResult(0, 10000, technique, [ reason |-> "empty_string" ])

\* what the library calls under the six calculators give for one pair
LibOutcome(lev, jw, fz, ab, ue, sem, ee, ctx, raises) ==
    [ levenshtein |-> lev, jaro_winkler |-> jw, fuzzy |-> fz, abbreviation |-> ab,
      used_expansion |-> ue, semantic |-> sem, embed_error |-> ee,
      contextual |-> ctx, raises |-> raises ]

(***************************************************************************)
(* The six calculators.  l is the library outcome for the pair: the raw    *)
(* value each library call returns, and the set of calculators whose       *)
(* library call raises.                                                    *)
(***************************************************************************)
LevenshteinSimilarity_calculate(a, b, l) ==
    IF is_empty(a) \/ is_empty(b) THEN EmptyStringResult("levenshtein")
    ELSE IF "levenshtein" \in l.raises THEN Raised("levenshtein")
    ELSE LET score == l.levenshtein
         IN  SimilarityResult(score, IF score > 8000 THEN 9000 ELSE 8000,
                              "levenshtein", [ reason |-> "" ])

JaroWinklerSimilarity_calculate(a, b, l) ==
    IF is_empty(a) \/ is_empty(b) THEN EmptyStringResult("jaro_winkler")
    ELSE IF "jaro_winkler" \in l.raises THEN Raised("jaro_winkler")
    ELSE LET score == l.jaro_winkler
         IN  SimilarityResult(score, IF score > 9000 THEN 9000 ELSE 8000,
                              "jaro_winkler", [ reason |-> "" ])

FuzzySimilarity_calculate(a, b, l) ==
    IF is_empty(a) \/ is_empty(b) THEN EmptyStringResult("fuzzy")
    ELSE IF "fuzzy" \in l.raises THEN Raised("fuzzy")
    ELSE LET score == l.fuzzy
         IN  SimilarityResult(score, IF score > 9000 THEN 9000 ELSE 8000,
                              "fuzzy", [ reason |-> "" ])

\* l.abbreviation is the best Jaro-Winkler score over the variation pairs and
\* l.used_expansion tells whether the winning pair differs from (a, b)
AbbreviationSimilarity_calculate(a, b, l) ==
    IF is_empty(a) \/ is_empty(b) THEN EmptyStringResult("abbreviation")
    ELSE IF "abbreviation" \in l.raises THEN Raised("abbreviation")
    ELSE LET best_score == l.abbreviation
             has_match == best_score > 0
             confidence ==
                 IF has_match /\ l.used_expansion
                 THEN (IF best_score >= 8000 THEN 9500 ELSE 8500)
                 ELSE (IF best_score >= 8000 THEN 7000 ELSE 6000)
         IN  SimilarityResult(best_score, confidence, "abbreviation",
                              [ reason |-> "",
                                used_expansion |-> has_match /\ l.used_expansion ])

\* max(0.0, min(1.0, x))
clamp01(x) == IF x < 0 THEN 0 ELSE IF x > 10000 THEN 10000 ELSE x

\* the model check comes first, the empty check second; l.semantic is the
\* larger of the two cosine similarities, l.embed_error an exception inside
\* the try block
SemanticSimilarity_calculate(a, b, l, loaded) ==
    IF ~loaded
    THEN SimilarityResult(0, 0, "semantic", [ reason |-> "model_not_available" ])
    ELSE IF is_empty(a) \/ is_empty(b) THEN EmptyStringResult("semantic")
    ELSE IF "semantic" \in l.raises THEN Raised("semantic")
    ELSE IF l.embed_error
    THEN SimilarityResult(0, 3000, "semantic", [ reason |-> "embedding_calculation_failed" ])
    ELSE LET final_score == clamp01(l.semantic)
             confidence == IF final_score >= 8000 THEN 9000
                           ELSE IF final_score >= 6000 THEN 8000 ELSE 7000
         IN  SimilarityResult(final_score, confidence, "semantic", [ reason |-> "" ])

\* l.contextual is max(domain_score, expanded_domain_score): 0.9, 0.7 or 0.0
ContextualSimilarity_calculate(a, b, l) ==
    IF is_empty(a) \/ is_empty(b) THEN EmptyStringResult("contextual")
    ELSE IF "contextual" \in l.raises THEN Raised("contextual")
    ELSE LET final_score == l.contextual
             confidence == IF final_score >= 8000 THEN 9500
                           ELSE IF final_score >= 6000 THEN 8000 ELSE 6000
         IN  SimilarityResult(final_score, confidence, "contextual", [ reason |-> "" ])

\* self.calculators[calc_name].calculate(text1, text2)
calculator_calculate(calc_name, a, b, l, loaded) ==
    CASE calc_name = "levenshtein"  -> LevenshteinSimilarity_calculate(a, b, l)
      [] calc_name = "jaro_winkler" -> JaroWinklerSimilarity_calculate(a, b, l)
      [] calc_name = "fuzzy"        -> FuzzySimilarity_calculate(a, b, l)
      [] calc_name = "abbreviation" -> AbbreviationSimilarity_calculate(a, b, l)
      [] calc_name = "semantic"     -> SemanticSimilarity_calculate(a, b, l, loaded)
      [] OTHER                      -> ContextualSimilarity_calculate(a, b, l)

(***************************************************************************)
(* CompositeSimilarity                                                     *)
(***************************************************************************)
\* mutant of default_weights: the embedding and the domain lookup carry the
\* weights of the fuzzy and the abbreviation calculator
default_weights_embedding_first ==
    [ levenshtein |-> 10, jaro_winkler |-> 15, fuzzy |-> 5,
      abbreviation |-> 5, semantic |-> 30, contextual |-> 35 ]

default_weights ==
    [ levenshtein |-> 10, jaro_winkler |-> 15, fuzzy |-> 30,
      abbreviation |-> 35, semantic |-> 5, contextual |-> 5 ]

\* sum(weights.values())
RECURSIVE weight_sum_upto(_, _)
weight_sum_upto(weights, n) ==
    IF n = 0 THEN 0 ELSE weights[Techniques[n]] + weight_sum_upto(weights, n - 1)

weight_sum(weights) == weight_sum_upto(weights, Len(Techniques))

\* {k: v / weight_sum for k, v in weights.items()}
normalize_weights(weights) ==
    LET total == weight_sum(weights)
    IN  [ k \in TechniqueSet |-> (weights[k] * 100) \div total ]

\* the except branch of the loop: the record put in place of the result of
\* a calculator that raised
error_record_or(calc_name, result) ==
    IF result.raised
    THEN SimilarityResult(0, 1000, calc_name, [ reason |-> "", error |-> TRUE ])
    ELSE result

\* results[calc_name] of the loop
composite_individual(calc_name, a, b, l, loaded) ==
    error_record_or(calc_name, calculator_calculate(calc_name, a, b, l, loaded))

\* result.score * weight, result.confidence * weight: reached only when the
\* calculator returned
weighted(result, weight, what) ==
    IF result.raised THEN 0
    ELSE IF what = "score" THEN result.score * weight
    ELSE result.confidence * weight

\* mutant of composite_term: the error record that replaces a failed
\* calculator (score 0.0, confidence 0.1) is added to the weighted totals
composite_term_counting_errors(calc_name, a, b, l, loaded, calc_weights, what) ==
    LET result == calculator_calculate(calc_name, a, b, l, loaded)
        weight == calc_weights[calc_name]
    IN  IF what = "score"
        THEN (IF result.raised THEN 0 ELSE result.score * weight)
        ELSE (IF result.raised THEN 1000 * weight ELSE result.confidence * weight)

\* what one pass of the loop adds to total_weighted_score / _confidence:
\* nothing when the calculator raised
composite_term(calc_name, a, b, l, loaded, calc_weights, what) ==
    weighted(calculator_calculate(calc_name, a, b, l, loaded), calc_weights[calc_name], what)

RECURSIVE composite_total(_, _, _, _, _, _, _)
composite_total(n, a, b, l, loaded, calc_weights, what) ==
    IF n = 0 THEN 0
    ELSE composite_total(n - 1, a, b, l, loaded, calc_weights, what)
         + composite_term(Techniques[n], a, b, l, loaded, calc_weights, what)

\* max(results.values(), key=lambda r: r.score): the first of the maxima
best_individual_technique(results) ==
    LET i == CHOOSE i \in 1..Len(Techniques) :
                 /\ \A j \in 1..Len(Techniques) :
                        results[Techniques[j]].score <= results[Techniques[i]].score
                 /\ \A j \in 1..(i - 1) :
                        results[Techniques[j]].score < results[Techniques[i]].score
    IN  Techniques[i]

\* min(0.15, high_score_count * 0.05)
consistency_boost(high_score_count) ==
    IF high_score_count * 500 < 1500 THEN high_score_count * 500 ELSE 1500

\* final_score = min(1.0, total_weighted_score + consistency_boost)
composite_final_score(total_weighted_score, boost) ==
    IF total_weighted_score + boost > 10000 THEN 10000
    ELSE total_weighted_score + boost

\* final_confidence = min(1.0, total_weighted_confidence)
composite_final_confidence(total_weighted_confidence) ==
    IF total_weighted_confidence > 10000 THEN 10000 ELSE total_weighted_confidence

\* CompositeSimilarity.calculate after the loop: boost, clamp from above and
\* the metadata
composite_result(results, total_weighted_score, total_weighted_confidence, calc_weights) ==
    LET high_score_count == Cardinality({ k \in TechniqueSet : results[k].score >= 8000 })
        boost == consistency_boost(high_score_count)
    IN  SimilarityResult(
            composite_final_score(total_weighted_score, boost),
            composite_final_confidence(total_weighted_confidence),
            "composite",
            [ reason |-> "",
              individual_results |->
                  [ k \in TechniqueSet |->
                      [ score |-> results[k].score,
                        confidence |-> results[k].confidence,
                        metadata |-> results[k].metadata ] ],
              weights_used |-> calc_weights,
              consistency_boost |-> boost,
              high_score_count |-> high_score_count,
              best_individual_technique |-> best_individual_technique(results),
              best_individual_score |-> results[best_individual_technique(results)].score ])

CompositeSimilarity_calculate(a, b, l, loaded, calc_weights) ==
    IF is_empty(a) \/ is_empty(b) THEN EmptyStringResult("composite")
    ELSE composite_result(
             [ k \in TechniqueSet |-> composite_individual(k, a, b, l, loaded) ],
             composite_total(Len(Techniques), a, b, l, loaded, calc_weights, "score") \div 100,
             composite_total(Len(Techniques), a, b, l, loaded, calc_weights, "confidence") \div 100,
             calc_weights)

(***************************************************************************)
(* AdaptiveSimilarity                                                      *)
(***************************************************************************)
analyze_string_characteristics(text) ==
    [ length |-> Len(text),
      has_underscores |-> \E i \in 1..Len(text) : text[i] = "_",
      has_camelcase |-> \E i \in 2..Len(text) :
                            text[i - 1] \in LowerChars /\ text[i] \in UpperChars,
      is_abbreviation_like |-> Len(text) <= 8 /\ str_isupper(text) ]

\* the weights after the three adjustments, before they are normalized
adaptive_adjusted_weights(a, b) ==
    LET char1 == analyze_string_characteristics(a)
        char2 == analyze_string_characteristics(b)
        \* avg_length <= 8  and  avg_length > 15, on twice the average
        twice_avg == char1.length + char2.length
        short == twice_avg <= 16 \/ char1.is_abbreviation_like \/ char2.is_abbreviation_like
        long == ~short /\ twice_avg > 30
        camel == char1.has_camelcase /\ char2.has_camelcase
        w0 == default_weights
        w1 == IF short
              THEN [ w0 EXCEPT !.abbreviation = @ + 10, !.jaro_winkler = @ + 5,
                               !.semantic = @ - 10, !.contextual = @ - 5 ]
              ELSE IF long
              THEN [ w0 EXCEPT !.semantic = @ + 10, !.contextual = @ + 5,
                               !.levenshtein = @ - 10, !.abbreviation = @ - 5 ]
              ELSE w0
    IN  IF camel THEN [ w1 EXCEPT !.fuzzy = @ + 5, !.levenshtein = @ - 5 ] ELSE w1

compute_adaptive_weights(a, b) ==
    LET weights == adaptive_adjusted_weights(a, b)
    IN  IF weight_sum(weights) > 0 THEN normalize_weights(weights) ELSE weights

\* result.technique = self.name; result.metadata["adaptive_weights"] = ...
adaptive_result(result, adaptive_weights) ==
    [ result EXCEPT
        !.technique = "adaptive",
        !.metadata = [ k \in DOMAIN result.metadata \cup { "adaptive_weights" } |->
                         IF k = "adaptive_weights" THEN adaptive_weights
                         ELSE result.metadata[k] ] ]

AdaptiveSimilarity_calculate(a, b, l, loaded) ==
    IF is_empty(a) \/ is_empty(b) THEN EmptyStringResult("adaptive")
    ELSE adaptive_result(
             CompositeSimilarity_calculate(a, b, l, loaded, compute_adaptive_weights(a, b)),
             compute_adaptive_weights(a, b))

\* FieldMatcher.similarity_engine.calculate
similarity_engine_calculate(a, b, l, loaded, adaptive) ==
    IF adaptive THEN AdaptiveSimilarity_calculate(a, b, l, loaded)
    ELSE CompositeSimilarity_calculate(a, b, l, loaded, default_weights)

(***************************************************************************)
(* SemanticSimilarity.__init__: the import and the model load.             *)
(*   "ok"           the package imports and the model loads                *)
(*   "import_error" the import raises ImportError, which is caught         *)
(*   "load_error"   the import succeeds and SentenceTransformer(...)       *)
(*                  raises something else, which is not caught             *)
(***************************************************************************)
Backends == { "ok", "import_error", "load_error" }

SemanticSimilarity_init(b) ==
    [ raised |-> b = "load_error", model |-> b = "ok" ]

(***************************************************************************)
(* FieldMatcher._classify_match_type                                       *)
(***************************************************************************)
\* mutant of classify_match_type: the cutoffs are exclusive
classify_match_type_exclusive(score) ==
    IF score > 9500 THEN "EXACT"
    ELSE IF score > 8500 THEN "STRONG"
    ELSE IF score > 7000 THEN "MODERATE"
    ELSE IF score > 5000 THEN "WEAK"
    ELSE "NO_MATCH"

classify_match_type(score) ==
    IF score >= 9500 THEN "EXACT"
    ELSE IF score >= 8500 THEN "STRONG"
    ELSE IF score >= 7000 THEN "MODERATE"
    ELSE IF score >= 5000 THEN "WEAK"
    ELSE "NO_MATCH"

(***************************************************************************)
(* The similarity engine as the FieldMatcher sees it.  The libraries are   *)
(* an oracle: for two names that are equal after lowercasing, the three    *)
(* string calculators and the abbreviation calculator compare equal        *)
(* strings and return 1.0 (the first variation pair (a, b) already wins,   *)
(* so no expansion is used); the embedding and the domain tables are left  *)
(* to the oracle ("case": same prepared text, "case_domain": the names     *)
(* also hit a domain synonym group, "case_split": the camelCase split      *)
(* makes the prepared texts differ).  For any other pair the oracle picks  *)
(* one of the other profiles.  Two identical names always give the same    *)
(* prepared text, hence cosine 1.0.                                        *)
(***************************************************************************)
ProfileLib(id) ==
    CASE id = "zero"   -> LibOutcome(0, 0, 0, 0, FALSE, 0, FALSE, 0, {})
      [] id = "low"    -> LibOutcome(3000, 4000, 3000, 4000, TRUE, 3000, FALSE, 0, {})
      [] id = "mid"    -> LibOutcome(6000, 8000, 6000, 8000, TRUE, 6000, FALSE, 0, {})
      [] id = "strong" -> LibOutcome(7000, 9000, 7000, 9000, TRUE, 7000, FALSE, 0, {})
      [] id = "near"   -> LibOutcome(9000, 9600, 10000, 10000, TRUE, 9000, FALSE, 0, {})
      [] id = "case"   -> LibOutcome(10000, 10000, 10000, 10000, FALSE, 10000, FALSE, 0, {})
      [] id = "case_domain"
                       -> LibOutcome(10000, 10000, 10000, 10000, FALSE, 10000, FALSE, 9000, {})
      [] OTHER         -> LibOutcome(10000, 10000, 10000, 10000, FALSE, 6000, FALSE, 0, {})

CaseProfiles == { "case", "case_domain", "case_split" }

lib_for(a, b) ==
    LET l == ProfileLib(oracle[<< str_lower(a), str_lower(b) >>])
    IN  IF a = b THEN [ l EXCEPT !.semantic = 10000 ] ELSE l

\* self.similarity_engine.calculate(a, b)
engine_calculate(a, b) ==
    similarity_engine_calculate(a, b, lib_for(a, b), model_loaded, use_adaptive)

(***************************************************************************)
(* FieldMatcher: helpers of the three matching loops                       *)
(***************************************************************************)
\* str.upper() on one character
char_upper(c) ==
    CASE c = "a" -> "A" [] c = "b" -> "B" [] c = "c" -> "C" [] c = "d" -> "D"
      [] c = "e" -> "E" [] c = "h" -> "H" [] c = "i" -> "I" [] c = "m" -> "M"
      [] c = "n" -> "N" [] c = "o" -> "O" [] c = "r" -> "R" [] c = "s" -> "S"
      [] c = "t" -> "T" [] c = "u" -> "U" [] c = "x" -> "X" [] c = "z" -> "Z" [] OTHER -> c

has_underscore(s) == \E i \in 1..Len(s) : s[i] = "_"

\* parts[0] + ''.join(word.capitalize() for word in parts[1:]), parts being
\* s.split('_'): the underscores go, the first character of every later
\* part is uppercased and the rest of that part lowercased
RECURSIVE underscore_to_camel_upto(_, _)
underscore_to_camel_upto(s, n) ==
    IF n = 0 THEN << >>
    ELSE LET before == underscore_to_camel_upto(s, n - 1)
             in_first_part == \A i \in 1..n : s[i] # "_"
         IN  IF s[n] = "_" THEN before
             ELSE IF in_first_part THEN Append(before, s[n])
             ELSE IF s[n - 1] = "_" THEN Append(before, char_upper(s[n]))
             ELSE Append(before, char_lower(s[n]))

\* re.sub(r'(?<!^)(?=[A-Z])', '_', s).lower()
RECURSIVE camel_to_underscore_upto(_, _)
camel_to_underscore_upto(s, n) ==
    IF n = 0 THEN << >>
    ELSE LET before == camel_to_underscore_upto(s, n - 1)
         IN  IF n > 1 /\ s[n] \in UpperChars
             THEN before \o << "_", char_lower(s[n]) >>
             ELSE Append(before, char_lower(s[n]))

\* FieldMatcher._is_underscore_to_camelcase
is_underscore_to_camelcase(underscore_str, camel_str) ==
    IF has_underscore(underscore_str)
    THEN underscore_to_camel_upto(underscore_str, Len(underscore_str)) = camel_str
    ELSE camel_to_underscore_upto(camel_str, Len(camel_str)) = underscore_str

\* A recommendation string: the template it was formatted from and the two
\* names put into it.
Recommendation(template, source, target) ==
    [ template |-> template, source |-> source, target |-> target ]

\* the phrases the comparator looks for, as they occur in each template
\* (lowercased): "Change ... (case sensitivity)", "Consider renaming ... for
\* compliance", "Rename property ... to match standard", "Property type
\* mismatch: ...", "Property ... should be mandatory according to the standard"
template_phrases(template) ==
    CASE template \in { "node_label_case", "relationship_type_case", "property_case" }
             -> { "case sensitivity" }
      [] template = "property_rename" -> { "rename" }
      [] template = "property_type" -> { "type mismatch" }
      [] template = "property_mandatory" -> { "mandatory" }
      [] OTHER -> {}

\* 'phrase' in recommendation.lower()
recommendation_contains(recommendation, phrase) ==
    phrase \in template_phrases(recommendation.template)

\* FieldMatcher._generate_label_recommendations
generate_label_recommendations(customer_label, standard_label, similarity) ==
    IF similarity.score < 10000
    THEN IF str_lower(customer_label) = str_lower(standard_label)
         THEN << Recommendation("node_label_case", customer_label, standard_label) >>
         ELSE << Recommendation("node_label_rename", customer_label, standard_label) >>
    ELSE << >>

\* FieldMatcher._generate_relationship_recommendations
generate_relationship_recommendations(customer_type, standard_type, similarity) ==
    IF similarity.score < 10000
    THEN IF str_lower(customer_type) = str_lower(standard_type)
         THEN << Recommendation("relationship_type_case", customer_type, standard_type) >>
         ELSE << Recommendation("relationship_type_rename", customer_type, standard_type) >>
    ELSE << >>

\* FieldMatcher._generate_property_recommendations
generate_property_recommendations(customer_prop, standard_prop, similarity) ==
    LET name_part ==
            IF similarity.score < 10000
            THEN IF str_lower(customer_prop.property) = str_lower(standard_prop.property)
                 THEN << Recommendation("property_case", customer_prop.property, standard_prop.property) >>
                 ELSE << Recommendation("property_rename", customer_prop.property, standard_prop.property) >>
            ELSE << >>
        type_part ==
            IF customer_prop.type # standard_prop.type
            THEN << Recommendation("property_type", customer_prop.property, standard_prop.property) >>
            ELSE << >>
        mandatory_part ==
            IF ~customer_prop.mandatory /\ standard_prop.mandatory
            THEN << Recommendation("property_mandatory", customer_prop.property, standard_prop.property) >>
            ELSE << >>
    IN  name_part \o type_part \o mandatory_part

\* FieldMatcher._extract_technique_contributions: the dict under
\* 'composite_scores' or 'technique_scores' of the metadata when there is
\* one, otherwise the technique of the result with the score of the result
extract_technique_contributions(similarity_result) ==
    IF "composite_scores" \in DOMAIN similarity_result.metadata
    THEN similarity_result.metadata.composite_scores
    ELSE IF "technique_scores" \in DOMAIN similarity_result.metadata
    THEN similarity_result.metadata.technique_scores
    ELSE [ t \in { similarity_result.technique } |-> similarity_result.score ]

FieldMatch(source_field, target_field, match_type, similarity_result, recommendations) ==
    [ source_field |-> source_field, target_field |-> target_field,
      match_type |-> match_type, similarity_result |-> similarity_result,
      confidence |-> similarity_result.confidence,
      recommendations |-> recommendations,
      technique_contributions |-> extract_technique_contributions(similarity_result) ]

\* One pass of the inner loop of _match_nodes, _match_relationships and
\* _match_properties: a name already used is skipped; otherwise the target
\* is recorded as a candidate, and it replaces the best one so far when its
\* score is strictly higher than best_score and meets the threshold.
scan_step(before, position, target_name, is_used, score) ==
    IF is_used THEN before
    ELSE [ best_match |-> IF score > before.best_score /\ score >= similarity_threshold
                          THEN position ELSE before.best_match,
           best_score |-> IF score > before.best_score /\ score >= similarity_threshold
                          THEN score ELSE before.best_score,
           all_candidates |-> Append(before.all_candidates,
                                     [ name |-> target_name, score |-> score ]) ]

\* The inner loop over the first n targets; best_score starts at 0.0 and
\* best_match at None (0 here, otherwise the position of the winner in the
\* target list).
RECURSIVE scan_targets(_, _, _, _)
scan_targets(source_name, target_names, used, n) ==
    IF n = 0 THEN [ best_match |-> 0, best_score |-> 0, all_candidates |-> << >> ]
    ELSE scan_step(scan_targets(source_name, target_names, used, n - 1),
                   n, target_names[n], target_names[n] \in used,
                   engine_calculate(source_name, target_names[n]).score)

\* list.sort(key=lambda x: x[1], reverse=True): stable, highest score first
RECURSIVE sort_candidates(_)
insert_candidate(sorted, c) ==
    LET k == Cardinality({ i \in 1..Len(sorted) : sorted[i].score >= c.score })
    IN  SubSeq(sorted, 1, k) \o << c >> \o SubSeq(sorted, k + 1, Len(sorted))
sort_candidates(candidates) ==
    IF candidates = << >> THEN << >>
    ELSE insert_candidate(sort_candidates(SubSeq(candidates, 1, Len(candidates) - 1)),
                          candidates[Len(candidates)])

(***************************************************************************)
(* FieldMatcher: property, node and relationship matches                   *)
(***************************************************************************)
\* Python's None for an absent target / label match
None == [ none |-> TRUE ]

\* mutant of node_label_match_type: no case-only override
node_label_match_type_plain(customer_label, standard_label, score) ==
    classify_match_type(score)

\* _create_node_match: the match type of the label, with the case-only override
node_label_match_type(customer_label, standard_label, score) ==
    LET match_type == classify_match_type(score)
    IN  IF is_case_only_diff(customer_label, standard_label) /\ match_type = "EXACT"
        THEN "STRONG" ELSE match_type

\* _create_relationship_match: the match type of the type, with the case-only override
relationship_type_match_type(customer_type, standard_type, score) ==
    LET match_type == classify_match_type(score)
    IN  IF is_case_only_diff(customer_type, standard_type) /\ match_type = "EXACT"
        THEN "STRONG" ELSE match_type

\* _match_properties: the match type of a property pair, with the
\* formatting and case-only override
property_match_type(customer_name, standard_name, best_score) ==
    LET match_type == classify_match_type(best_score)
    IN  IF /\ ( \/ is_underscore_to_camelcase(customer_name, standard_name)
                \/ is_case_only_diff(customer_name, standard_name) )
           /\ match_type = "EXACT"
        THEN "STRONG" ELSE match_type

property_names(props) == [ i \in 1..Len(props) |-> props[i].property ]

\* mutant of mark_used: the winner is not recorded as used
mark_used_forgetting(used, name) == used

\* used_standard_nodes.add(best_match.label), used_standard_rels.add(...),
\* used_standard_props.add(...)
mark_used(used, name) == used \cup { name }

\* _match_properties: the FieldMatch of a customer property and its winner
property_field_match(customer_prop, best_match, best_score, prop_similarity) ==
    FieldMatch(customer_prop.property, best_match.property,
               property_match_type(customer_prop.property, best_match.property, best_score),
               prop_similarity,
               generate_property_recommendations(customer_prop, best_match, prop_similarity))

\* _match_properties: the "if best_match:" block
property_matched(before, customer_prop, best_match, best_score) ==
    [ matches |-> Append(before.matches,
                         property_field_match(customer_prop, best_match, best_score,
                             engine_calculate(customer_prop.property, best_match.property))),
      used_standard_props |-> mark_used(before.used_standard_props, best_match.property) ]

property_choice(before, customer_prop, standard_props, scan) ==
    IF scan.best_match = 0 THEN before
    ELSE property_matched(before, customer_prop, standard_props[scan.best_match],
                          scan.best_score)

\* _match_properties: one pass of the loop over customer_props
property_step(before, customer_prop, standard_props) ==
    property_choice(before, customer_prop, standard_props,
                    scan_targets(customer_prop.property, property_names(standard_props),
                                 before.used_standard_props, Len(standard_props)))

\* _match_properties, the loop over the first n customer properties
RECURSIVE match_properties_upto(_, _, _)
match_properties_upto(customer_props, standard_props, n) ==
    IF n = 0 THEN [ matches |-> << >>, used_standard_props |-> {} ]
    ELSE property_step(match_properties_upto(customer_props, standard_props, n - 1),
                       customer_props[n], standard_props)

\* _match_properties after the loop: missing and extra properties
properties_result(done, customer_props, standard_props) ==
    LET matched_customer_props ==
            { done.matches[i].source_field : i \in 1..Len(done.matches) }
        is_missing(prop) == prop.property \notin done.used_standard_props
        is_extra(prop) == prop.property \notin matched_customer_props
    IN  [ property_matches |-> done.matches,
          missing_properties |-> SelectSeq(standard_props, is_missing),
          extra_properties |-> SelectSeq(customer_props, is_extra) ]

\* FieldMatcher._match_properties
match_properties(customer_props, standard_props) ==
    properties_result(match_properties_upto(customer_props, standard_props, Len(customer_props)),
                      customer_props, standard_props)

\* sum(match.confidence for match in property_matches)
RECURSIVE confidence_sum(_, _)
confidence_sum(property_matches, n) ==
    IF n = 0 THEN 0
    ELSE property_matches[n].confidence + confidence_sum(property_matches, n - 1)

\* sum(1 for prop in missing_props if prop.mandatory)
mandatory_missing(missing_props) ==
    Cardinality({ i \in 1..Len(missing_props) : missing_props[i].mandatory })

\* max(0.0, min(1.0, confidence)), confidence = num / den
clamp_confidence(num, den) ==
    IF num < 0 THEN Fraction(0, 1)
    ELSE IF num > den THEN Fraction(1, 1)
    ELSE Fraction(num, den)

\* mutant of extra_penalty: extra properties add to the confidence
extra_penalty_as_bonus(extra_props, n) == 0 - Len(extra_props) * 20000 * n

\* len(extra_props) * 0.02, in units of 1 / (1000000 * n)
extra_penalty(extra_props, n) == Len(extra_props) * 20000 * n

\* _calculate_node_confidence for a label match that is not None; n is the
\* number of property matches, or 1 when there are none, and the terms are
\* in units of 1 / (1000000 * n)
node_confidence_terms(label_match, property_matches, missing_props, extra_props, n) ==
    clamp_confidence(
        label_match.confidence * 40 * n
          + (IF Len(property_matches) > 0
             THEN confidence_sum(property_matches, Len(property_matches)) * 40 ELSE 0)
          - mandatory_missing(missing_props) * 100000 * n
          - extra_penalty(extra_props, n),
        1000000 * n)

\* FieldMatcher._calculate_node_confidence
calculate_node_confidence(label_match, property_matches, missing_props, extra_props) ==
    IF label_match = None THEN Fraction(0, 1)
    ELSE node_confidence_terms(label_match, property_matches, missing_props, extra_props,
                               IF Len(property_matches) > 0 THEN Len(property_matches) ELSE 1)

\* _calculate_relationship_confidence for a type match that is not None
relationship_confidence_terms(type_match, property_matches, missing_props, n) ==
    clamp_confidence(
        type_match.confidence * 50 * n
          + (IF Len(property_matches) > 0
             THEN confidence_sum(property_matches, Len(property_matches)) * 30 ELSE 0)
          - mandatory_missing(missing_props) * 50000 * n,
        1000000 * n)

\* FieldMatcher._calculate_relationship_confidence
calculate_relationship_confidence(type_match, property_matches, missing_props, extra_props) ==
    IF type_match = None THEN Fraction(0, 1)
    ELSE relationship_confidence_terms(type_match, property_matches, missing_props,
                                       IF Len(property_matches) > 0 THEN Len(property_matches) ELSE 1)

\* total_confidence of _calculate_compliance_score over the first n matches
RECURSIVE total_confidence(_, _)
total_confidence(matches, n) ==
    IF n = 0 THEN Fraction(0, 1)
    ELSE frac_add(total_confidence(matches, n - 1), matches[n].overall_confidence)

\* mutant of mean_confidence: the total is not divided
mean_confidence_undivided(total, total_elements) == total

\* total_confidence / total_elements
mean_confidence(total, total_elements) == Fraction(total.num, total.den * total_elements)

\* FieldMatcher._calculate_compliance_score
calculate_compliance_score(node_ms, relationship_ms) ==
    IF Len(node_ms) + Len(relationship_ms) = 0 THEN Fraction(0, 1)
    ELSE mean_confidence(frac_add(total_confidence(node_ms, Len(node_ms)),
                                  total_confidence(relationship_ms, Len(relationship_ms))),
                         Len(node_ms) + Len(relationship_ms))

\* FieldMatcher._generate_match_rationale: the names, the score and, as the
\* primary reason, the entry of technique_contributions with the highest
\* score
generate_match_rationale(field_match) ==
    LET contributions == field_match.technique_contributions
        primary_tech == CHOOSE t \in DOMAIN contributions :
                            \A u \in DOMAIN contributions : contributions[u] <= contributions[t]
    IN  [ source |-> field_match.source_field, target |-> field_match.target_field,
          score |-> field_match.similarity_result.score,
          primary_tech |-> primary_tech, primary_score |-> contributions[primary_tech] ]

\* FieldMatcher._generate_no_match_rationale: all_candidates is sorted,
\* highest score first
generate_no_match_rationale(source_name, all_candidates) ==
    IF Len(all_candidates) = 0
    THEN [ source |-> source_name, best_candidate |-> None ]
    ELSE [ source |-> source_name, best_candidate |-> all_candidates[1].name,
           best_score |-> all_candidates[1].score, threshold |-> similarity_threshold ]

\* the match_rationale of a NodeMatch or RelationshipMatch
match_rationale(source_name, field_match, all_candidates) ==
    IF field_match = None THEN generate_no_match_rationale(source_name, all_candidates)
    ELSE generate_match_rationale(field_match)

\* _create_node_match: the FieldMatch of the two labels
label_field_match(customer_label, standard_label, label_similarity) ==
    FieldMatch(customer_label, standard_label,
               node_label_match_type(customer_label, standard_label, label_similarity.score),
               label_similarity,
               generate_label_recommendations(customer_label, standard_label, label_similarity))

NodeMatch(source_node, target_node, label_match, props, overall_confidence, all_candidates) ==
    [ source_node |-> source_node, target_node |-> target_node,
      label_match |-> label_match,
      property_matches |-> props.property_matches,
      missing_properties |-> props.missing_properties,
      extra_properties |-> props.extra_properties,
      overall_confidence |-> overall_confidence,
      all_candidates |-> all_candidates,
      match_rationale |-> match_rationale(source_node.label, label_match, all_candidates) ]

\* _create_node_match from the overall confidence on
scored_node_match(customer_node, standard_node, label_match, props, all_candidates) ==
    NodeMatch(customer_node, standard_node, label_match, props,
              calculate_node_confidence(label_match, props.property_matches,
                                        props.missing_properties, props.extra_properties),
              all_candidates)

\* FieldMatcher._create_node_match
create_node_match(customer_node, standard_node, all_candidates) ==
    scored_node_match(customer_node, standard_node,
                      label_field_match(customer_node.label, standard_node.label,
                                        engine_calculate(customer_node.label, standard_node.label)),
                      match_properties(customer_node.properties, standard_node.properties),
                      all_candidates)

\* mutant of unmatched_node: the record keeps a confidence of one half
unmatched_node_half_confident(customer_node, all_candidates) ==
    NodeMatch(customer_node, None, None,
              [ property_matches |-> << >>, missing_properties |-> << >>,
                extra_properties |-> customer_node.properties ],
              Fraction(1, 2), all_candidates)

\* the NodeMatch of _match_nodes when no standard node qualified
unmatched_node(customer_node, all_candidates) ==
    NodeMatch(customer_node, None, None,
              [ property_matches |-> << >>, missing_properties |-> << >>,
                extra_properties |-> customer_node.properties ],
              Fraction(0, 1), all_candidates)

\* _create_relationship_match: the FieldMatch of the two types
type_field_match(customer_type, standard_type, type_similarity) ==
    FieldMatch(customer_type, standard_type,
               relationship_type_match_type(customer_type, standard_type, type_similarity.score),
               type_similarity,
               generate_relationship_recommendations(customer_type, standard_type,
                                                     type_similarity))

RelationshipMatch(source_relationship, target_relationship, type_match, props, overall_confidence, all_candidates) ==
    [ source_relationship |-> source_relationship,
      target_relationship |-> target_relationship,
      type_match |-> type_match,
      property_matches |-> props.property_matches,
      missing_properties |-> props.missing_properties,
      extra_properties |-> props.extra_properties,
      overall_confidence |-> overall_confidence,
      all_candidates |-> all_candidates,
      match_rationale |-> match_rationale(source_relationship.type, type_match, all_candidates) ]

\* _create_relationship_match from the overall confidence on
scored_relationship_match(customer_rel, standard_rel, type_match, props, all_candidates) ==
    RelationshipMatch(customer_rel, standard_rel, type_match, props,
                      calculate_relationship_confidence(type_match, props.property_matches,
                                                        props.missing_properties,
                                                        props.extra_properties),
                      all_candidates)

\* FieldMatcher._create_relationship_match
create_relationship_match(customer_rel, standard_rel, all_candidates) ==
    scored_relationship_match(customer_rel, standard_rel,
                              type_field_match(customer_rel.type, standard_rel.type,
                                               engine_calculate(customer_rel.type,
                                                                standard_rel.type)),
                              match_properties(customer_rel.properties, standard_rel.properties),
                              all_candidates)

\* the RelationshipMatch of _match_relationships when no standard one qualified
unmatched_relationship(customer_rel, all_candidates) ==
    RelationshipMatch(customer_rel, None, None,
                      [ property_matches |-> << >>, missing_properties |-> << >>,
                        extra_properties |-> customer_rel.properties ],
                      Fraction(0, 1), all_candidates)

node_labels(nodes) == [ i \in 1..Len(nodes) |-> nodes[i].label ]
relationship_types(rels) == [ i \in 1..Len(rels) |-> rels[i].type ]

\* _match_nodes after the inner loop: the candidates are sorted, and the
\* winner, if any, is marked used and turned into a NodeMatch
node_choice(customer_node, standard_nodes, used, scan) ==
    IF scan.best_match # 0
    THEN [ used |-> mark_used(used, standard_nodes[scan.best_match].label),
           match |-> create_node_match(customer_node, standard_nodes[scan.best_match],
                                       sort_candidates(scan.all_candidates)) ]
    ELSE [ used |-> used,
           match |-> unmatched_node(customer_node, sort_candidates(scan.all_candidates)) ]

\* one pass of the outer loop of _match_nodes, for customer_node
match_node(customer_node, standard_nodes, used) ==
    node_choice(customer_node, standard_nodes, used,
                scan_targets(customer_node.label, node_labels(standard_nodes), used,
                             Len(standard_nodes)))

\* _match_relationships after the inner loop
relationship_choice(customer_rel, standard_rels, used, scan) ==
    IF scan.best_match # 0
    THEN [ used |-> mark_used(used, standard_rels[scan.best_match].type),
           match |-> create_relationship_match(customer_rel, standard_rels[scan.best_match],
                                               sort_candidates(scan.all_candidates)) ]
    ELSE [ used |-> used,
           match |-> unmatched_relationship(customer_rel,
                                            sort_candidates(scan.all_candidates)) ]

\* one pass of the outer loop of _match_relationships, for customer_rel
match_relationship(customer_rel, standard_rels, used) ==
    relationship_choice(customer_rel, standard_rels, used,
                        scan_targets(customer_rel.type, relationship_types(standard_rels), used,
                                     Len(standard_rels)))

(***************************************************************************)
(* comparator.py: severity buckets                                         *)
(***************************************************************************)
\* one entry of a severity bucket; the 'type' string is kept as the sequence
\* of the parts the code joins with "_" (the field type, then the kind)
Entry(type, message) == [ type |-> type, message |-> message ]

NoCategories == [ critical |-> << >>, important |-> << >>, style |-> << >>, optimization |-> << >> ]

\* _categorize_field_recommendations, for the first n recommendations
RECURSIVE categorize_upto(_, _, _, _)
categorize_upto(field_match, field_type, categories, n) ==
    IF n = 0 THEN categories
    ELSE
    LET before == categorize_upto(field_match, field_type, categories, n - 1)
        recommendation == field_match.recommendations[n]
    IN  IF recommendation_contains(recommendation, "case sensitivity")
        THEN [ before EXCEPT !.style = Append(@, Entry(<< field_type, "case_sensitivity" >>, recommendation)) ]
        ELSE IF recommendation_contains(recommendation, "type mismatch")
        THEN [ before EXCEPT !.critical = Append(@, Entry(<< field_type, "type_mismatch" >>, recommendation)) ]
        ELSE IF recommendation_contains(recommendation, "mandatory")
        THEN [ before EXCEPT !.critical = Append(@, Entry(<< field_type, "mandatory_mismatch" >>, recommendation)) ]
        ELSE IF field_match.similarity_result.score >= 8000
        THEN [ before EXCEPT !.style = Append(@, Entry(<< field_type, "naming" >>, recommendation)) ]
        ELSE [ before EXCEPT !.important = Append(@, Entry(<< field_type, "naming" >>, recommendation)) ]

\* _categorize_field_recommendations
categorize_field_recommendations(field_match, field_type, categories) ==
    IF field_match.match_type = "EXACT" THEN categories
    ELSE categorize_upto(field_match, field_type, categories, Len(field_match.recommendations))

\* the loop over missing_properties of _enhance_comparison_results
RECURSIVE categorize_missing(_, _, _, _)
categorize_missing(owner, missing, categories, n) ==
    IF n = 0 THEN categories
    ELSE LET before == categorize_missing(owner, missing, categories, n - 1)
         IN  IF missing[n].mandatory
             THEN [ before EXCEPT !.critical =
                        Append(@, Entry(<< "missing_mandatory_property" >>, << owner, missing[n].property >>)) ]
             ELSE [ before EXCEPT !.important =
                        Append(@, Entry(<< "missing_optional_property" >>, << owner, missing[n].property >>)) ]

\* the loops over property_matches of _enhance_comparison_results
RECURSIVE categorize_properties(_, _, _, _)
categorize_properties(property_matches, field_type, categories, n) ==
    IF n = 0 THEN categories
    ELSE categorize_field_recommendations(
             property_matches[n], field_type,
             categorize_properties(property_matches, field_type, categories, n - 1))

\* _enhance_comparison_results: the loop over node_matches, first n of them
RECURSIVE categorize_nodes(_, _)
categorize_nodes(matches, n) ==
    IF n = 0 THEN NoCategories
    ELSE
    LET before == categorize_nodes(matches, n - 1)
        node_match == matches[n]
    IN  IF node_match.target_node = None
        THEN [ before EXCEPT !.critical =
                   Append(@, Entry(<< "unmatched_node" >>, node_match.source_node.label)) ]
        ELSE
        LET labelled == categorize_field_recommendations(node_match.label_match, "node_label", before)
            missing == categorize_missing(node_match.source_node.label,
                                          node_match.missing_properties, labelled,
                                          Len(node_match.missing_properties))
        IN  categorize_properties(node_match.property_matches, "node_property", missing,
                                  Len(node_match.property_matches))

\* _enhance_comparison_results: the loop over relationship_matches, first n
\* of them, continuing from the buckets the node loop filled
RECURSIVE categorize_relationships(_, _, _)
categorize_relationships(matches, categories, n) ==
    IF n = 0 THEN categories
    ELSE
    LET before == categorize_relationships(matches, categories, n - 1)
        rel_match == matches[n]
    IN  IF rel_match.target_relationship = None
        THEN [ before EXCEPT !.critical =
                   Append(@, Entry(<< "unmatched_relationship" >>, rel_match.source_relationship.type)) ]
        ELSE
        LET typed == categorize_field_recommendations(rel_match.type_match, "relationship_type", before)
        IN  categorize_properties(rel_match.property_matches, "relationship_property", typed,
                                  Len(rel_match.property_matches))

\* mutant of calculate_compliance_level: the critical entries are not counted
calculate_compliance_level_by_score(compliance_score, recommendations) ==
    IF frac_ge_score(compliance_score, 9500) THEN "excellent"
    ELSE IF frac_ge_score(compliance_score, 8500) THEN "good"
    ELSE IF frac_ge_score(compliance_score, 7000) THEN "fair"
    ELSE IF frac_ge_score(compliance_score, 5000) THEN "poor"
    ELSE "critical"

\* _calculate_compliance_level
calculate_compliance_level(compliance_score, recommendations) ==
    IF Len(recommendations.critical) = 0 /\ frac_ge_score(compliance_score, 9500)
    THEN "excellent"
    ELSE IF Len(recommendations.critical) = 0 /\ frac_ge_score(compliance_score, 8500)
    THEN "good"
    ELSE IF Len(recommendations.critical) <= 2 /\ frac_ge_score(compliance_score, 7000)
    THEN "fair"
    ELSE IF Len(recommendations.critical) <= 5 /\ frac_ge_score(compliance_score, 5000)
    THEN "poor"
    ELSE "critical"

\* code point of a character
char_ord(c) ==
    CASE c = "A" -> 65 [] c = "B" -> 66 [] c = "C" -> 67 [] c = "D" -> 68
      [] c = "T" -> 84 [] c = "X" -> 88 [] c = "Z" -> 90 [] c = "_" -> 95
      [] c = "a" -> 97 [] c = "b" -> 98 [] c = "c" -> 99 [] c = "d" -> 100
      [] c = "t" -> 116 [] c = "x" -> 120 [] c = "z" -> 122

\* a < b on str: lexicographic by code point
RECURSIVE str_before(_, _)
str_before(a, b) ==
    IF Len(b) = 0 THEN FALSE
    ELSE IF Len(a) = 0 THEN TRUE
    ELSE IF a[1] # b[1] THEN char_ord(a[1]) < char_ord(b[1])
    ELSE str_before(Tail(a), Tail(b))

\* sorted(names)
RECURSIVE sorted(_)
sorted(names) ==
    IF Len(names) = 0 THEN << >>
    ELSE LET least == CHOOSE i \in 1..Len(names) :
                          \A j \in 1..Len(names) : ~str_before(names[j], names[i])
         IN  << names[least] >>
             \o sorted([ j \in 1..(Len(names) - 1) |->
                           IF j < least THEN names[j] ELSE names[j + 1] ])

\* f"{idx.type}:{':'.join(sorted(idx.properties))}", as the pair of its
\* parts (no name and no type used here contains ":")
index_key(idx) == << idx.type, sorted(idx.properties) >>

\* _generate_index_cypher: the command, as the statement it opens with and
\* the label and properties it is filled with
generate_index_cypher(label, index_info) ==
    IF index_info.type = "BTREE"
    THEN [ statement |-> "CREATE INDEX", label |-> label, properties |-> index_info.properties ]
    ELSE IF index_info.type = "FULLTEXT"
    THEN [ statement |-> "CREATE FULLTEXT INDEX", label |-> label,
           properties |-> index_info.properties ]
    ELSE [ statement |-> "//", label |-> label, properties |-> index_info.properties ]

\* _enhance_comparison_results: the loop over the indexes of the target node
\* of one matched node, first n of them
RECURSIVE missing_indexes_of(_, _, _)
missing_indexes_of(node_match, missing, n) ==
    IF n = 0 THEN missing
    ELSE
    LET before == missing_indexes_of(node_match, missing, n - 1)
        target_index == node_match.target_node.indexes[n]
        source_index_keys == { index_key(node_match.source_node.indexes[i]) :
                                 i \in 1..Len(node_match.source_node.indexes) }
    IN  IF index_key(target_index) \notin source_index_keys
        THEN Append(before,
                    [ element_label |-> node_match.source_node.label,
                      index_type |-> target_index.type,
                      properties |-> target_index.properties,
                      priority |-> "MEDIUM",
                      cypher_command |->
                          generate_index_cypher(node_match.target_node.label, target_index) ])
        ELSE before

\* _enhance_comparison_results: recommendations_by_type['missing_indexes']
\* after the first n node matches
RECURSIVE missing_indexes(_, _)
missing_indexes(matches, n) ==
    IF n = 0 THEN << >>
    ELSE IF matches[n].target_node = None THEN missing_indexes(matches, n - 1)
    ELSE missing_indexes_of(matches[n], missing_indexes(matches, n - 1),
                            Len(matches[n].target_node.indexes))

\* _enhance_comparison_results after the two loops
enhanced_results(categories, missing, compliance_score) ==
    [ categorized_recommendations |-> categories,
      recommendations_by_type |-> [ missing_indexes |-> missing ],
      priority_scores |->
          [ critical_issues |-> Len(categories.critical),
            important_issues |-> Len(categories.important),
            style_issues |-> Len(categories.style),
            optimization_opportunities |-> Len(categories.optimization) ],
      compliance_level |-> calculate_compliance_level(compliance_score, categories) ]

\* _enhance_comparison_results
enhance_comparison_results(node_ms, rel_ms, compliance_score) ==
    enhanced_results(categorize_relationships(rel_ms, categorize_nodes(node_ms, Len(node_ms)),
                                              Len(rel_ms)),
                     missing_indexes(node_ms, Len(node_ms)),
                     compliance_score)

(***************************************************************************)
(* Direct calls of the calculators: inputs                                 *)
(***************************************************************************)
T_empty == << >>
T_ab == << "a", "b" >>
T_CD == << "C", "D" >>
T_aB == << "a", "B" >>
T_cD == << "c", "D" >>
T_mid == << "a", "b", "c", "d", "a", "b", "c", "d", "a", "b" >>
T_mid2 == << "x", "z", "t", "x", "z", "t", "x", "z", "t", "x" >>
T_long == T_mid \o << "c", "d", "a", "b", "c", "d" >>
T_long2 == T_mid2 \o << "z", "t", "x", "z", "t", "x" >>
T_longCamel == << "a", "B" >> \o T_mid \o << "c", "D", "a", "b" >>
T_longCamel2 == << "x", "Z" >> \o T_mid2 \o << "t", "X", "z", "t" >>

\* pairs with an empty side
EmptyPairs == { << T_empty, T_ab >>, << T_ab, T_empty >>, << T_empty, T_empty >> }

\* non-empty pairs of different names: short, short camelCase,
\* abbreviation-like with a long one, neither short nor long, long, long
\* camelCase
TextPairs ==
    { << T_ab, T_CD >>, << T_aB, T_cD >>, << T_long, T_CD >>, << T_mid, T_mid2 >>,
      << T_long, T_long2 >>, << T_longCamel, T_longCamel2 >> }

\* library outcomes without exception: the corners of the score range, a
\* middle value for the embedding and a cosine below zero
ScoreLibs ==
    { LibOutcome(lev, jw, fz, ab, ue, sem, FALSE, ctx, {}) :
        lev \in {0, 10000}, jw \in {0, 10000}, fz \in {0, 10000}, ab \in {0, 10000},
        ue \in BOOLEAN, sem \in {-2000, 0, 5000, 10000}, ctx \in {0, 7000, 9000} }

\* library outcomes where any subset of the calculators raises
RaisingLibs ==
    { LibOutcome(s, s, 10000 - s, 10000, TRUE, s, ee, 9000, raises) :
        s \in {0, 8000, 10000}, ee \in BOOLEAN, raises \in SUBSET TechniqueSet }

ScoreSamples ==
    { -500, 0, 4900, 4999, 5000, 6999, 7000, 8499, 8500, 9499, 9500, 9501, 10000 }

\* the weights argument of a direct CompositeSimilarity.calculate call
WeightArguments ==
    { None,
      [ levenshtein |-> 0, jaro_winkler |-> 0, fuzzy |-> 50,
        abbreviation |-> 50, semantic |-> 0, contextual |-> 0 ],
      [ levenshtein |-> 20, jaro_winkler |-> 30, fuzzy |-> 60,
        abbreviation |-> 70, semantic |-> 10, contextual |-> 10 ] }

NoSchema == [ nodes |-> << >>, relationships |-> << >> ]

\* the module transactions as imported (_cached_schema = None), and no call
\* of the orchestrator made
orchestrator_unused ==
    /\ cached_schema = None
    /\ fetch_count = 0
    /\ call_count = 0
    /\ returned_schema = None
    /\ verbose = NoValue
    /\ entity_centric = NoValue

SimInit ==
    /\ pc = "new"
    /\ backend \in Backends
    /\ model_loaded = FALSE
    /\ \E p \in EmptyPairs \cup TextPairs :
          /\ text1 = p[1]
          /\ text2 = p[2]
          /\ lib \in IF p \in EmptyPairs
                     THEN { LibOutcome(10000, 10000, 10000, 10000, FALSE, 10000, FALSE, 9000, {}) }
                     ELSE IF p = << T_ab, T_CD >> THEN ScoreLibs \cup RaisingLibs
                     ELSE ScoreLibs
    /\ callee = NoValue
    /\ sim_result = NoValue
    /\ use_adaptive = FALSE
    /\ similarity_threshold = 7000
    /\ oracle = NoValue
    /\ customer_schema = NoSchema
    /\ standard_schema = NoSchema
    /\ next_index = 0
    /\ used_standard_nodes = {}
    /\ used_standard_rels = {}
    /\ node_matches = << >>
    /\ relationship_matches = << >>
    /\ summary = NoValue
    /\ enhanced = NoValue
    /\ self_weights = NoValue
    /\ self_default_weights = NoValue
    /\ weights_aliased = FALSE
    /\ updates = 0
    /\ orchestrator_unused

pipeline_vars == << use_adaptive, similarity_threshold, oracle, customer_schema,
                    standard_schema, next_index, used_standard_nodes, used_standard_rels,
                    node_matches, relationship_matches, summary, enhanced >>

\* FieldMatcher.__init__ -> CompositeSimilarity.__init__ (directly or through
\* AdaptiveSimilarity.__init__): the six calculators are built,
\* SemanticSimilarity.__init__ among them; an exception of that constructor
\* is not caught on the way up
Construct ==
    /\ pc = "new"
    /\ LET init == SemanticSimilarity_init(backend)
       IN  /\ model_loaded' = init.model
           /\ pc' = IF init.raised THEN "raised" ELSE "ready"
    /\ UNCHANGED << backend, text1, text2, lib, callee, sim_result >>
    /\ UNCHANGED pipeline_vars
    /\ UNCHANGED weight_vars
    /\ UNCHANGED orchestrator_vars

\* one of the six calculators, called directly
CallCalculator ==
    /\ pc = "ready"
    /\ \E k \in TechniqueSet :
          /\ callee' = k
          /\ sim_result' = calculator_calculate(k, text1, text2, lib, model_loaded)
    /\ pc' = "returned"
    /\ UNCHANGED << backend, model_loaded, text1, text2, lib >>
    /\ UNCHANGED pipeline_vars
    /\ UNCHANGED weight_vars
    /\ UNCHANGED orchestrator_vars

CallComposite ==
    /\ pc = "ready"
    /\ callee' = "composite"
    /\ sim_result' = CompositeSimilarity_calculate(text1, text2, lib, model_loaded, default_weights)
    /\ pc' = "returned"
    /\ UNCHANGED << backend, model_loaded, text1, text2, lib >>
    /\ UNCHANGED pipeline_vars
    /\ UNCHANGED weight_vars
    /\ UNCHANGED orchestrator_vars

CallAdaptive ==
    /\ pc = "ready"
    /\ callee' = "adaptive"
    /\ sim_result' = AdaptiveSimilarity_calculate(text1, text2, lib, model_loaded)
    /\ pc' = "returned"
    /\ UNCHANGED << backend, model_loaded, text1, text2, lib >>
    /\ UNCHANGED pipeline_vars
    /\ UNCHANGED weight_vars
    /\ UNCHANGED orchestrator_vars

\* CompositeSimilarity().calculate(text1, text2, weights=...):
\* calc_weights = self.weights if weights is None else weights
CallCompositeWithWeights ==
    /\ pc = "ready"
    /\ callee' = "composite_weights"
    /\ \E weights \in WeightArguments :
          sim_result' = CompositeSimilarity_calculate(
                            text1, text2, lib, model_loaded,
                            IF weights = None THEN default_weights ELSE weights)
    /\ pc' = "returned"
    /\ UNCHANGED << backend, model_loaded, text1, text2, lib >>
    /\ UNCHANGED pipeline_vars
    /\ UNCHANGED weight_vars
    /\ UNCHANGED orchestrator_vars

\* FieldMatcher._classify_match_type on a score
CallClassify ==
    /\ pc = "ready"
    /\ callee' = "classify"
    /\ \E s \in ScoreSamples :
          sim_result' = [ score |-> s, match_type |-> classify_match_type(s) ]
    /\ pc' = "returned"
    /\ UNCHANGED << backend, model_loaded, text1, text2, lib >>
    /\ UNCHANGED pipeline_vars
    /\ UNCHANGED weight_vars
    /\ UNCHANGED orchestrator_vars

SimNext ==
    \/ Construct
    \/ CallCalculator
    \/ CallComposite
    \/ CallCompositeWithWeights
    \/ CallAdaptive
    \/ CallClassify

SimSpec == SimInit /\ [][SimNext]_vars

(***************************************************************************)
(* The documented banking example: CUSTNUM against customerId.  The three  *)
(* string library calls are computed as the libraries define them, on the  *)
(* lowercased names the calculators hand over; scores are rounded down to  *)
(* ten-thousandths.                                                        *)
(***************************************************************************)
T_CUSTNUM == << "C", "U", "S", "T", "N", "U", "M" >>
T_customerId == << "c", "u", "s", "t", "o", "m", "e", "r", "I", "d" >>

\* length of the longest common subsequence of a[1..i] and b[1..j]
RECURSIVE lcs_length(_, _, _, _)
lcs_length(a, b, i, j) ==
    IF i = 0 \/ j = 0 THEN 0
    ELSE IF a[i] = b[j] THEN 1 + lcs_length(a, b, i - 1, j - 1)
    ELSE LET left == lcs_length(a, b, i - 1, j)
             right == lcs_length(a, b, i, j - 1)
         IN  IF left >= right THEN left ELSE right

\* Levenshtein.ratio(a, b): (lensum - distance) / lensum, the distance
\* counting an insertion or a deletion as 1 and a substitution as 2, so
\* that lensum - distance is twice the longest common subsequence
Levenshtein_ratio(a, b) ==
    (2 * lcs_length(a, b, Len(a), Len(b)) * 10000) \div (Len(a) + Len(b))

\* the Jaro matching: the characters of a, in order, each paired with the
\* first unpaired equal character of b not farther away than window
RECURSIVE jaro_matches(_, _, _, _, _)
jaro_matches(a, b, i, used, window) ==
    IF i > Len(a) THEN << >>
    ELSE LET candidates == { j \in 1..Len(b) : /\ j \notin used
                                              /\ b[j] = a[i]
                                              /\ j >= i - window
                                              /\ j <= i + window }
         IN  IF candidates = {} THEN jaro_matches(a, b, i + 1, used, window)
             ELSE LET j == CHOOSE c \in candidates : \A d \in candidates : c <= d
                  IN  << << i, j >> >> \o jaro_matches(a, b, i + 1, used \cup { j }, window)

\* the paired characters of b in the order of b
RECURSIVE in_order_of_b(_, _, _)
in_order_of_b(b, paired, j) ==
    IF j > Len(b) THEN << >>
    ELSE IF j \in paired THEN << b[j] >> \o in_order_of_b(b, paired, j + 1)
    ELSE in_order_of_b(b, paired, j + 1)

\* Levenshtein.jaro_winkler(a, b), prefix weight 0.1 and prefixes of at most
\* four characters: jaro + prefix * 0.1 * (1 - jaro), where
\* jaro = (m / len(a) + m / len(b) + (m - t) / m) / 3
Levenshtein_jaro_winkler(a, b) ==
    LET longer == IF Len(a) >= Len(b) THEN Len(a) ELSE Len(b)
        window == IF longer \div 2 = 0 THEN 0 ELSE longer \div 2 - 1
        pairs == jaro_matches(a, b, 1, {}, window)
        m == Len(pairs)
        of_a == [ k \in 1..m |-> a[pairs[k][1]] ]
        of_b == in_order_of_b(b, { pairs[k][2] : k \in 1..m }, 1)
        t == Cardinality({ k \in 1..m : of_a[k] # of_b[k] }) \div 2
        jaro == IF m = 0 THEN 0
                ELSE ((m * m * Len(b) + m * m * Len(a) + (m - t) * Len(a) * Len(b)) * 10000)
                         \div (3 * m * Len(a) * Len(b))
        shorter == IF Len(a) <= Len(b) THEN Len(a) ELSE Len(b)
        common == { k \in 0..shorter : \A q \in 1..k : a[q] = b[q] }
        longest == CHOOSE k \in common : \A q \in common : q <= k
        prefix == IF longest > 4 THEN 4 ELSE longest
    IN  jaro + (prefix * (10000 - jaro)) \div 10

\* fuzz.token_set_ratio(a, b) / 100.0 for two names of one token each that
\* differ: the token sets have nothing in common, and the best of the three
\* ratios is the one of the two names, round(100 * ratio) hundredths
fuzz_token_set_ratio(a, b) ==
    ((200 * 2 * lcs_length(a, b, Len(a), Len(b)) + (Len(a) + Len(b)))
        \div (2 * (Len(a) + Len(b)))) * 100

\* library outcomes for the pair: the three string scores as computed; the
\* abbreviation score is the best Jaro-Winkler score over the pairs of
\* variations, the pair of the names themselves among them, so it is at
\* least the Jaro-Winkler score; the embedding and the domain lookup are
\* left open
ExampleLibs(a, b) ==
    { LibOutcome(Levenshtein_ratio(str_lower(a), str_lower(b)),
                 Levenshtein_jaro_winkler(str_lower(a), str_lower(b)),
                 fuzz_token_set_ratio(str_lower(a), str_lower(b)),
                 ab, ue, sem, ee, ctx, {}) :
        ab \in { Levenshtein_jaro_winkler(str_lower(a), str_lower(b)), 9000, 10000 },
        ue \in BOOLEAN, sem \in { -2000, 0, 5000, 10000 }, ee \in BOOLEAN,
        ctx \in { 0, 7000, 9000 } }

ExampleInit ==
    /\ pc = "new"
    /\ backend \in Backends
    /\ model_loaded = FALSE
    /\ text1 = T_CUSTNUM
    /\ text2 = T_customerId
    /\ lib \in ExampleLibs(T_CUSTNUM, T_customerId)
    /\ callee = NoValue
    /\ sim_result = NoValue
    /\ use_adaptive = FALSE
    /\ similarity_threshold = 7000
    /\ oracle = NoValue
    /\ customer_schema = NoSchema
    /\ standard_schema = NoSchema
    /\ next_index = 0
    /\ used_standard_nodes = {}
    /\ used_standard_rels = {}
    /\ node_matches = << >>
    /\ relationship_matches = << >>
    /\ summary = NoValue
    /\ enhanced = NoValue
    /\ self_weights = NoValue
    /\ self_default_weights = NoValue
    /\ weights_aliased = FALSE
    /\ updates = 0
    /\ orchestrator_unused

ExampleSpec == ExampleInit /\ [][SimNext]_vars

(***************************************************************************)
(* compare_schemas: inputs.  Five families of schema pairs: node labels    *)
(* only, relationship types only (long names, so that the adaptive weights *)
(* of long strings are exercised), one node pair with properties, one node *)
(* pair with a single property on each side whose names are equal or       *)
(* differ in their formatting (snake_case, camelCase, lowercase), and one  *)
(* node pair with indexes of the three kinds of the data model.            *)
(***************************************************************************)
MaxNodes == 2
MaxRels == 2
MaxProps == 2

SeqsUpTo(S, n) == UNION { [ 1..k -> S ] : k \in 0..n }

PropertyDefinition(property, type, mandatory) ==
    [ property |-> property, type |-> type, mandatory |-> mandatory ]

Index(type, properties) == [ type |-> type, properties |-> properties ]

Node(label, indexes, properties) ==
    [ label |-> label, indexes |-> indexes, properties |-> properties ]

Relationship(type, properties) == [ type |-> type, properties |-> properties ]

GraphSchema(nodes, relationships) == [ nodes |-> nodes, relationships |-> relationships ]

L_ac == << "a", "c" >>
L_Ac == << "A", "c" >>
L_zz == << "z", "z" >>
L_Tx == << "T", "x" >>

R_long == T_long
R_LONG == [ i \in 1..Len(T_long) |-> char_upper(T_long[i]) ]
R_long2 == T_long2
R_XZ == << "X", "Z" >>

P_a_b == PropertyDefinition(<< "a", "_", "b" >>, << "STRING" >>, FALSE)
P_ab == PropertyDefinition(<< "a", "b" >>, << "INTEGER" >>, TRUE)
P_zz == PropertyDefinition(<< "z", "z" >>, << "STRING" >>, FALSE)
P_aB == PropertyDefinition(<< "a", "B" >>, << "STRING" >>, TRUE)
P_xt == PropertyDefinition(<< "x", "t" >>, << "DATE" >>, FALSE)
\* the name of the standard property P_aB, with another type and optional
P_aB_int == PropertyDefinition(<< "a", "B" >>, << "INTEGER" >>, FALSE)

\* indexes of the nodes of the fifth family
MaxIndexes == 2
I_ab == Index("PROPERTY", << P_ab.property >>)
I_ab_xt == Index("PROPERTY", << P_ab.property, P_xt.property >>)
I_xt_ab == Index("PROPERTY", << P_xt.property, P_ab.property >>)
I_text == Index("FULLTEXT", << P_ab.property >>)
I_vector == Index("VECTOR", << P_ab.property >>)

Families == { "nodes", "relationships", "properties", "formatting", "indexes" }

CustomerSchemas(family) ==
    CASE family = "nodes" ->
             { GraphSchema([ i \in 1..Len(ls) |-> Node(ls[i], << >>, << >>) ], << >>) :
                 ls \in SeqsUpTo({ L_ac, L_Ac, L_zz }, MaxNodes) }
      [] family = "relationships" ->
             { GraphSchema(<< >>, [ i \in 1..Len(ts) |-> Relationship(ts[i], << >>) ]) :
                 ts \in SeqsUpTo({ R_long, R_LONG, R_long2 }, MaxRels) }
      [] family = "properties" ->
             { GraphSchema(<< Node(L_Ac, << >>, ps) >>, << >>) :
                 ps \in SeqsUpTo({ P_a_b, P_ab, P_zz, P_aB_int }, MaxProps) }
      [] family = "indexes" ->
             { GraphSchema(<< Node(L_ac, is, << >>) >>, << >>) :
                 is \in SeqsUpTo({ I_xt_ab, I_text }, MaxIndexes) }
      [] OTHER ->
             { GraphSchema(<< Node(L_Ac, << >>, << p >>) >>, << >>) : p \in { P_a_b, P_ab, P_aB_int } }

StandardSchemas(family) ==
    CASE family = "nodes" ->
             { GraphSchema([ i \in 1..Len(ls) |-> Node(ls[i], << >>, << >>) ], << >>) :
                 ls \in { << >>, << L_Ac >>, << L_Ac, L_Tx >>, << L_Tx, L_Ac >> } }
      [] family = "relationships" ->
             { GraphSchema(<< >>, [ i \in 1..Len(ts) |->
                                      Relationship(ts[i], IF ts[i] = R_LONG
                                                          THEN << P_aB, P_xt >> ELSE << >>) ]) :
                 ts \in { << R_LONG >>, << R_LONG, R_XZ >>, << R_XZ, R_LONG >> } }
      [] family = "properties" ->
             { GraphSchema(<< Node(L_Ac, << >>, << P_aB, P_xt >>) >>, << >>) }
      [] family = "indexes" ->
             { GraphSchema(<< Node(L_Ac, is, << >>) >>, << >>) :
                 is \in SeqsUpTo({ I_ab, I_ab_xt, I_text, I_vector }, MaxIndexes) }
      [] OTHER ->
             { GraphSchema(<< Node(L_Ac, << >>, << p >>) >>, << >>) : p \in { P_a_b, P_ab } }

Thresholds(family) ==
    CASE family = "properties" -> { 0, 7000 }
      [] family = "formatting" -> { 7000 }
      [] family = "indexes" -> { 7000 }
      [] OTHER -> { 0, 7000, 10000 }

FamilyBackends(family) ==
    CASE family = "nodes" -> Backends
      [] family = "relationships" -> { "ok", "import_error" }
      [] OTHER -> { "ok" }

FamilyProfiles(family) ==
    CASE family = "nodes" -> { "zero", "low", "mid" }
      [] family = "relationships" -> { "zero", "strong" }
      [] family = "properties" -> { "zero", "mid", "near" }
      [] OTHER -> { "zero", "near" }

FamilyCaseProfiles(family) ==
    IF family = "relationships" THEN CaseProfiles ELSE { "case" }

\* the lowercased name pairs the matcher can put to the similarity engine
ScoredPairs(customer, standard) ==
    LET lowered(as, bs) == { << str_lower(a), str_lower(b) >> : a \in as, b \in bs }
        range(seq) == { seq[i] : i \in 1..Len(seq) }
    IN  lowered(range(node_labels(customer.nodes)), range(node_labels(standard.nodes)))
        \cup lowered(range(relationship_types(customer.relationships)),
                     range(relationship_types(standard.relationships)))
        \cup UNION { lowered(range(property_names(c.properties)),
                             range(property_names(t.properties))) :
                       c \in range(customer.nodes), t \in range(standard.nodes) }

Oracles(family, customer, standard) ==
    LET pairs == ScoredPairs(customer, standard)
    IN  { f \in [ pairs -> FamilyProfiles(family) \cup FamilyCaseProfiles(family) ] :
            \A p \in pairs : (p[1] = p[2]) <=> (f[p] \in CaseProfiles) }

Init ==
    /\ pc = "new"
    /\ model_loaded = FALSE
    /\ use_adaptive \in BOOLEAN
    /\ \E family \in Families :
          /\ backend \in FamilyBackends(family)
          /\ similarity_threshold \in Thresholds(family)
          /\ \E customer \in CustomerSchemas(family), standard \in StandardSchemas(family) :
                /\ customer_schema = customer
                /\ standard_schema = standard
                /\ oracle \in Oracles(family, customer, standard)
    /\ next_index = 0
    /\ used_standard_nodes = {}
    /\ used_standard_rels = {}
    /\ node_matches = << >>
    /\ relationship_matches = << >>
    /\ summary = NoValue
    /\ enhanced = NoValue
    /\ text1 = << >>
    /\ text2 = << >>
    /\ lib = NoValue
    /\ callee = NoValue
    /\ sim_result = NoValue
    /\ self_weights = NoValue
    /\ self_default_weights = NoValue
    /\ weights_aliased = FALSE
    /\ updates = 0
    /\ orchestrator_unused

direct_call_vars == << text1, text2, lib, callee, sim_result >>

config_vars == << backend, model_loaded, use_adaptive, similarity_threshold, oracle,
                  customer_schema, standard_schema >>

pipeline_state_vars == << next_index, used_standard_nodes, used_standard_rels,
                          node_matches, relationship_matches, summary, enhanced >>

(***************************************************************************)
(* compare_schemas: FieldMatcher.match_schemas, then the enhancement       *)
(***************************************************************************)
\* mutant of BeginMatch: the used standard nodes of the earlier run are kept
BeginMatch_keeping_used ==
    /\ pc = "ready"
    /\ pc' = "match_nodes"
    /\ next_index' = 1
    /\ node_matches' = << >>
    /\ relationship_matches' = << >>
    /\ summary' = [ total_customer_nodes |-> Len(customer_schema.nodes),
                    total_standard_nodes |-> Len(standard_schema.nodes),
                    matched_nodes |-> 0,
                    total_customer_relationships |-> Len(customer_schema.relationships),
                    total_standard_relationships |-> Len(standard_schema.relationships),
                    matched_relationships |-> 0,
                    overall_compliance_score |-> Fraction(0, 1) ]
    /\ UNCHANGED << used_standard_nodes, used_standard_rels, enhanced >>
    /\ UNCHANGED config_vars
    /\ UNCHANGED direct_call_vars
    /\ UNCHANGED weight_vars
    /\ UNCHANGED orchestrator_vars

\* match_schemas up to the call of _match_nodes: the results dict is set up
BeginMatch ==
    /\ pc = "ready"
    /\ pc' = "match_nodes"
    /\ next_index' = 1
    /\ used_standard_nodes' = {}
    /\ node_matches' = << >>
    /\ relationship_matches' = << >>
    /\ summary' = [ total_customer_nodes |-> Len(customer_schema.nodes),
                    total_standard_nodes |-> Len(standard_schema.nodes),
                    matched_nodes |-> 0,
                    total_customer_relationships |-> Len(customer_schema.relationships),
                    total_standard_relationships |-> Len(standard_schema.relationships),
                    matched_relationships |-> 0,
                    overall_compliance_score |-> Fraction(0, 1) ]
    /\ UNCHANGED << used_standard_rels, enhanced >>
    /\ UNCHANGED config_vars
    /\ UNCHANGED direct_call_vars
    /\ UNCHANGED weight_vars
    /\ UNCHANGED orchestrator_vars

\* _match_nodes: one pass of the loop over customer_nodes
MatchNode ==
    /\ pc = "match_nodes"
    /\ next_index <= Len(customer_schema.nodes)
    /\ LET step == match_node(customer_schema.nodes[next_index], standard_schema.nodes,
                              used_standard_nodes)
       IN  /\ used_standard_nodes' = step.used
           /\ node_matches' = Append(node_matches, step.match)
    /\ next_index' = next_index + 1
    /\ UNCHANGED << pc, used_standard_rels, relationship_matches, summary, enhanced >>
    /\ UNCHANGED config_vars
    /\ UNCHANGED direct_call_vars
    /\ UNCHANGED weight_vars
    /\ UNCHANGED orchestrator_vars

\* match_schemas between the two loops: matched_nodes is counted
NodesMatched ==
    /\ pc = "match_nodes"
    /\ next_index > Len(customer_schema.nodes)
    /\ summary' = [ summary EXCEPT !.matched_nodes =
                      Cardinality({ i \in 1..Len(node_matches) :
                                      node_matches[i].target_node # None }) ]
    /\ pc' = "match_relationships"
    /\ next_index' = 1
    /\ used_standard_rels' = {}
    /\ UNCHANGED << used_standard_nodes, node_matches, relationship_matches, enhanced >>
    /\ UNCHANGED config_vars
    /\ UNCHANGED direct_call_vars
    /\ UNCHANGED weight_vars
    /\ UNCHANGED orchestrator_vars

\* _match_relationships: one pass of the loop over customer_rels
MatchRelationship ==
    /\ pc = "match_relationships"
    /\ next_index <= Len(customer_schema.relationships)
    /\ LET step == match_relationship(customer_schema.relationships[next_index],
                                      standard_schema.relationships, used_standard_rels)
       IN  /\ used_standard_rels' = step.used
           /\ relationship_matches' = Append(relationship_matches, step.match)
    /\ next_index' = next_index + 1
    /\ UNCHANGED << pc, used_standard_nodes, node_matches, summary, enhanced >>
    /\ UNCHANGED config_vars
    /\ UNCHANGED direct_call_vars
    /\ UNCHANGED weight_vars
    /\ UNCHANGED orchestrator_vars

\* the rest of match_schemas: matched_relationships is counted and the
\* results are returned
RelationshipsMatched ==
    /\ pc = "match_relationships"
    /\ next_index > Len(customer_schema.relationships)
    /\ summary' = [ summary EXCEPT
                      !.matched_relationships =
                          Cardinality({ i \in 1..Len(relationship_matches) :
                                          relationship_matches[i].target_relationship # None }),
                      !.overall_compliance_score =
                          calculate_compliance_score(node_matches, relationship_matches) ]
    /\ pc' = "matched"
    /\ next_index' = 0
    /\ UNCHANGED << used_standard_nodes, used_standard_rels, node_matches,
                    relationship_matches, enhanced >>
    /\ UNCHANGED config_vars
    /\ UNCHANGED direct_call_vars
    /\ UNCHANGED weight_vars
    /\ UNCHANGED orchestrator_vars

\* compare_schemas after match_schemas: _enhance_comparison_results
Enhance ==
    /\ pc = "matched"
    /\ enhanced' = enhance_comparison_results(node_matches, relationship_matches,
                                              summary.overall_compliance_score)
    /\ pc' = "done"
    /\ UNCHANGED << next_index, used_standard_nodes, used_standard_rels, node_matches,
                    relationship_matches, summary >>
    /\ UNCHANGED config_vars
    /\ UNCHANGED direct_call_vars
    /\ UNCHANGED weight_vars
    /\ UNCHANGED orchestrator_vars

Next ==
    \/ Construct
    \/ BeginMatch
    \/ MatchNode
    \/ NodesMatched
    \/ MatchRelationship
    \/ RelationshipsMatched
    \/ Enhance

Spec == Init /\ [][Next]_vars

(***************************************************************************)
(* Two calls one after the other in one process: the caller keeps what the *)
(* first call returned and calls again with the same arguments.            *)
(***************************************************************************)
\* what match_schemas (enhanced = NoValue) or compare_schemas returned
returned_results ==
    [ node_matches |-> node_matches, relationship_matches |-> relationship_matches,
      summary |-> summary, enhanced |-> enhanced ]

\* compare_schemas called a second time: a new FieldMatcher is built and
\* match_schemas starts from a new results dict
CompareAgain ==
    /\ pc = "done"
    /\ callee = NoValue
    /\ sim_result' = returned_results
    /\ callee' = "compare_schemas"
    /\ pc' = "new"
    /\ model_loaded' = FALSE
    /\ next_index' = 0
    /\ used_standard_nodes' = {}
    /\ used_standard_rels' = {}
    /\ node_matches' = << >>
    /\ relationship_matches' = << >>
    /\ summary' = NoValue
    /\ enhanced' = NoValue
    /\ UNCHANGED << backend, use_adaptive, similarity_threshold, oracle, customer_schema,
                    standard_schema, text1, text2, lib >>
    /\ UNCHANGED weight_vars
    /\ UNCHANGED orchestrator_vars

\* match_schemas called a second time on the same FieldMatcher
MatchAgain ==
    /\ pc = "matched"
    /\ callee = NoValue
    /\ sim_result' = returned_results
    /\ callee' = "match_schemas"
    /\ pc' = "ready"
    /\ UNCHANGED << text1, text2, lib >>
    /\ UNCHANGED config_vars
    /\ UNCHANGED pipeline_state_vars
    /\ UNCHANGED weight_vars
    /\ UNCHANGED orchestrator_vars

\* the runs that are repeated: the embedding model loads or is not
\* installed, default threshold
RepeatInit ==
    /\ Init
    /\ backend \in { "ok", "import_error" }
    /\ similarity_threshold = 7000

RepeatNext ==
    \/ Next
    \/ CompareAgain
    \/ MatchAgain

RepeatSpec == RepeatInit /\ [][RepeatNext]_vars

(***************************************************************************)
(* The orchestrator: SchemaComparator.get_standard_schema with the cache   *)
(* of the module transactions, and SchemaComparator.compare_schemas         *)
(***************************************************************************)
MaxCalls == 3

L_Customer == << "C", "u", "s", "t", "o", "m", "e", "r" >>
L_Account == << "A", "c", "c", "o", "u", "n", "t" >>
R_HAS_ACCOUNT == << "H", "A", "S", "_", "A", "C", "C", "O", "U", "N", "T" >>
P_customerId ==
    PropertyDefinition(<< "c", "u", "s", "t", "o", "m", "e", "r", "I", "d" >>, << "String" >>, TRUE)
P_accountNumber ==
    PropertyDefinition(<< "a", "c", "c", "o", "u", "n", "t", "N", "u", "m", "b", "e", "r" >>,
                       << "String" >>, TRUE)

\* the minimal hardcoded schema of get_standard_schema
FallbackSchema ==
    GraphSchema(<< Node(L_Customer, << >>, << P_customerId >>),
                   Node(L_Account, << >>, << P_accountNumber >>) >>,
                << Relationship(R_HAS_ACCOUNT, << >>) >>)

\* environment: what one fetch_markdown_content / parse_standard_schema pair
\* does: the request fails, the document makes the parser raise, or the
\* document parses to a schema (the remote document may change between calls)
FetchOutcomes ==
    { [ fetched |-> FALSE, parsed |-> FALSE, schema |-> NoSchema ],
      [ fetched |-> TRUE, parsed |-> FALSE, schema |-> NoSchema ] }
    \cup { [ fetched |-> TRUE, parsed |-> TRUE, schema |-> s ] : s \in StandardSchemas("nodes") }

\* mutant of get_standard_schema: the fallback is returned but not kept
get_standard_schema_fallback_not_kept(cached, outcome) ==
    IF cached = None
    THEN IF outcome.fetched /\ outcome.parsed
         THEN [ fetches |-> 1, cached |-> outcome.schema, returned |-> outcome.schema ]
         ELSE [ fetches |-> 1, cached |-> None, returned |-> FallbackSchema ]
    ELSE [ fetches |-> 0, cached |-> cached, returned |-> cached ]

\* get_standard_schema: the number of fetch_markdown_content calls it makes,
\* _cached_schema after it and the value it returns
get_standard_schema(cached, outcome) ==
    IF cached = None
    THEN IF outcome.fetched /\ outcome.parsed
         THEN [ fetches |-> 1, cached |-> outcome.schema, returned |-> outcome.schema ]
         ELSE [ fetches |-> 1, cached |-> FallbackSchema, returned |-> FallbackSchema ]
    ELSE [ fetches |-> 0, cached |-> cached, returned |-> cached ]

\* SchemaComparator.get_standard_schema("transactions")
GetStandardSchema ==
    /\ call_count < MaxCalls
    /\ \E outcome \in FetchOutcomes :
          LET call == get_standard_schema(cached_schema, outcome)
          IN  /\ cached_schema' = call.cached
              /\ fetch_count' = fetch_count + call.fetches
              /\ returned_schema' = call.returned
    /\ call_count' = call_count + 1
    /\ UNCHANGED << pc, verbose, entity_centric >>
    /\ UNCHANGED config_vars
    /\ UNCHANGED pipeline_state_vars
    /\ UNCHANGED direct_call_vars
    /\ UNCHANGED weight_vars

\* the parameters of core.comparator.compare_schemas
compare_schemas_parameters ==
    { "existing_schema", "standard_schema", "similarity_threshold", "use_adaptive" }

\* the keyword arguments SchemaComparator.compare_schemas passes on
compare_schemas_keywords ==
    { "similarity_threshold", "use_adaptive", "verbose", "entity_centric" }

\* Python's call of a function without **kwargs: a keyword that is not a
\* parameter raises TypeError before the body runs
call_raises_type_error(parameters, keywords) == ~(keywords \subseteq parameters)

\* SchemaComparator.compare_schemas(existing_schema, standard_schema,
\* similarity_threshold, use_adaptive, verbose, entity_centric), with the
\* standard schema get_standard_schema returned
SchemaComparator_compare_schemas ==
    /\ pc = "new"
    /\ call_count > 0
    /\ \E v \in BOOLEAN, e \in BOOLEAN :
          /\ verbose' = v
          /\ entity_centric' = e
    /\ standard_schema' = returned_schema
    /\ callee' = "SchemaComparator.compare_schemas"
    /\ IF call_raises_type_error(compare_schemas_parameters, compare_schemas_keywords)
       THEN /\ pc' = "raised"
            /\ sim_result' = [ raised |-> TRUE, exception |-> "TypeError" ]
       ELSE /\ pc' = "new"
            /\ sim_result' = [ raised |-> FALSE, exception |-> NoValue ]
    /\ UNCHANGED << backend, model_loaded, use_adaptive, similarity_threshold, oracle,
                    customer_schema, text1, text2, lib >>
    /\ UNCHANGED << cached_schema, fetch_count, call_count, returned_schema >>
    /\ UNCHANGED pipeline_state_vars
    /\ UNCHANGED weight_vars

\* a process that holds a customer schema and calls the orchestrator
OrchestratorInit ==
    /\ pc = "new"
    /\ backend = "ok"
    /\ model_loaded = FALSE
    /\ use_adaptive \in BOOLEAN
    /\ similarity_threshold \in { 0, 7000, 10000 }
    /\ customer_schema \in CustomerSchemas("nodes")
    /\ standard_schema = NoSchema
    /\ oracle = << >>
    /\ next_index = 0
    /\ used_standard_nodes = {}
    /\ used_standard_rels = {}
    /\ node_matches = << >>
    /\ relationship_matches = << >>
    /\ summary = NoValue
    /\ enhanced = NoValue
    /\ text1 = << >>
    /\ text2 = << >>
    /\ lib = NoValue
    /\ callee = NoValue
    /\ sim_result = NoValue
    /\ self_weights = NoValue
    /\ self_default_weights = NoValue
    /\ weights_aliased = FALSE
    /\ updates = 0
    /\ orchestrator_unused

OrchestratorNext ==
    \/ GetStandardSchema
    \/ SchemaComparator_compare_schemas

OrchestratorSpec == OrchestratorInit /\ [][OrchestratorNext]_vars

(***************************************************************************)
(* CompositeSimilarity: the weights kept by the object.  A weight vector   *)
(* is a dict of fractions with one denominator: the weight of k is         *)
(* w[k] / unit.  The vectors are kept in lowest terms, so that equal       *)
(* vectors are equal values.                                               *)
(***************************************************************************)
MaxUpdates == 2

\* sum(weights.values()) of a dict whose keys are among keys
RECURSIVE dict_sum(_, _)
dict_sum(w, keys) ==
    IF keys = {} THEN 0
    ELSE LET k == CHOOSE k \in keys : TRUE
         IN  w[k] + dict_sum(w, keys \ {k})

RECURSIVE dict_gcd(_, _, _)
dict_gcd(w, keys, g) ==
    IF keys = {} THEN g
    ELSE LET k == CHOOSE k \in keys : TRUE
         IN  dict_gcd(w, keys \ {k}, gcd(g, abs(w[k])))

\* the vector w / unit in lowest terms, unit > 0
lowest_terms(w, unit, g) ==
    [ w |-> [ k \in DOMAIN w |-> w[k] \div g ], unit |-> unit \div g ]

WeightVector(w, unit) == lowest_terms(w, unit, dict_gcd(w, DOMAIN w, unit))

\* a dict literal written in hundredths
Hundredths(w) == WeightVector(w, 100)

\* {k: v / weight_sum for k, v in self.weights.items()}, weight_sum # 0
divide_by_sum(w, total) ==
    IF total > 0 THEN WeightVector(w, total)
    ELSE WeightVector([ k \in DOMAIN w |-> 0 - w[k] ], 0 - total)

\* CompositeSimilarity.__init__(custom_weights), after the choice of
\* self.weights: custom_weights is None or a dict in hundredths; the
\* division raises ZeroDivisionError when the weights sum to 0
init_normalized(chosen, total, is_default) ==
    IF abs(total - 100) > 1
    THEN IF total = 0
         THEN [ raised |-> TRUE, weights |-> NoValue, aliased |-> FALSE ]
         ELSE [ raised |-> FALSE, weights |-> divide_by_sum(chosen, total),
                aliased |-> FALSE ]
    ELSE [ raised |-> FALSE, weights |-> Hundredths(chosen), aliased |-> is_default ]

\* CompositeSimilarity.__init__: self.weights = custom_weights or self.default_weights
CompositeSimilarity_init(custom_weights) ==
    IF custom_weights = None
    THEN init_normalized(default_weights, dict_sum(default_weights, DOMAIN default_weights), TRUE)
    ELSE init_normalized(custom_weights, dict_sum(custom_weights, DOMAIN custom_weights), FALSE)

\* mutant of merge_weights: the new entries are dropped
merge_weights_dropping(current, new_weights) == current

\* self.weights.update(new_weights): the entries of new_weights (in
\* hundredths) replace or extend those of the current vector
merge_weights(current, new_weights) ==
    WeightVector([ k \in DOMAIN current.w \cup DOMAIN new_weights |->
                     IF k \in DOMAIN new_weights THEN new_weights[k] * current.unit
                     ELSE current.w[k] * 100 ],
                 current.unit * 100)

\* update_weights after the in-place update: the merged dict is also
\* default_weights when the two names were bound to one dict
updated(merged, default_dict, total) ==
    IF total > 0
    THEN [ raised |-> FALSE, weights |-> divide_by_sum(merged.w, total),
           default_weights |-> default_dict, aliased |-> FALSE ]
    ELSE [ raised |-> FALSE, weights |-> default_dict,
           default_weights |-> default_dict, aliased |-> FALSE ]

merged_and_normalized(merged, current_default, aliased) ==
    updated(merged, IF aliased THEN merged ELSE current_default,
            dict_sum(merged.w, DOMAIN merged.w))

\* CompositeSimilarity.update_weights
update_weights(current, current_default, aliased, new_weights) ==
    IF DOMAIN new_weights \ TechniqueSet # {}
    THEN [ raised |-> TRUE, weights |-> current,
           default_weights |-> current_default, aliased |-> aliased ]
    ELSE merged_and_normalized(merge_weights(current, new_weights), current_default, aliased)

(***************************************************************************)
(* Direct calls of the weight methods and of the aggregate functions       *)
(***************************************************************************)
CustomWeightSamples ==
    { None,
      [ fuzzy |-> 50 ],
      [ levenshtein |-> 20, jaro_winkler |-> 30, fuzzy |-> 60,
        abbreviation |-> 70, semantic |-> 10, contextual |-> 10 ],
      [ levenshtein |-> 25, jaro_winkler |-> 25, fuzzy |-> 25, abbreviation |-> 25 ],
      [ fuzzy |-> 50, semantic |-> -50 ] }

NewWeightSamples ==
    { [ fuzzy |-> 90 ],
      [ semantic |-> 20, contextual |-> 15 ],
      [ levenshtein |-> -10 ],
      [ levenshtein |-> 0, jaro_winkler |-> 0, fuzzy |-> 0,
        abbreviation |-> 0, semantic |-> 0, contextual |-> 0 ],
      [ fuzzy |-> -100 ],
      [ bogus |-> 50 ],
      [ fuzzy |-> 90, bogus |-> 10 ] }

MaxListed == 3
MaxCritical == 6

\* a FieldMatch with the given confidence
sample_field_match(confidence) ==
    FieldMatch(T_ab, T_aB, "STRONG",
               SimilarityResult(9000, confidence, "composite", [ reason |-> "" ]), << >>)

LabelMatchSamples == { None } \cup { sample_field_match(c) : c \in { 0, 5000, 8150, 10000 } }

PropertyMatchSamples == { sample_field_match(c) : c \in { 3000, 9000, 10000 } }

\* compliance scores on, just below and between the cutoffs
ComplianceScoreSamples ==
    { Fraction(n, 10000) : n \in { 0, 4999, 5000, 6999, 7000, 8499, 8500, 9499, 9500, 10000 } }

\* recommendations_by_category with the given numbers of entries
sample_recommendations(critical_count, important_count) ==
    [ NoCategories EXCEPT
        !.critical = [ i \in 1..critical_count |-> Entry(<< "unmatched_node" >>, T_ab) ],
        !.important = [ i \in 1..important_count |->
                          Entry(<< "missing_optional_property" >>, << T_ab, T_aB >>) ] ]

UnitInit ==
    /\ pc = "new"
    /\ backend = "ok"
    /\ model_loaded = FALSE
    /\ use_adaptive = FALSE
    /\ similarity_threshold = 7000
    /\ oracle = NoValue
    /\ customer_schema = NoSchema
    /\ standard_schema = NoSchema
    /\ next_index = 0
    /\ used_standard_nodes = {}
    /\ used_standard_rels = {}
    /\ node_matches = << >>
    /\ relationship_matches = << >>
    /\ summary = NoValue
    /\ enhanced = NoValue
    /\ text1 = << >>
    /\ text2 = << >>
    /\ lib = NoValue
    /\ callee = NoValue
    /\ sim_result = NoValue
    /\ self_weights = NoValue
    /\ self_default_weights = NoValue
    /\ weights_aliased = FALSE
    /\ updates = 0
    /\ orchestrator_unused

\* CompositeSimilarity(custom_weights)
ConstructComposite ==
    /\ pc = "new"
    /\ \E custom_weights \in CustomWeightSamples :
          LET init == CompositeSimilarity_init(custom_weights)
          IN  /\ pc' = IF init.raised THEN "raised" ELSE "composite"
              /\ self_weights' = init.weights
              /\ self_default_weights' = Hundredths(default_weights)
              /\ weights_aliased' = init.aliased
              /\ callee' = "CompositeSimilarity"
              /\ sim_result' = [ custom_weights |-> custom_weights, raised |-> init.raised ]
    /\ UNCHANGED << text1, text2, lib, updates >>
    /\ UNCHANGED config_vars
    /\ UNCHANGED pipeline_state_vars
    /\ UNCHANGED orchestrator_vars

\* composite.update_weights(new_weights)
UpdateWeights ==
    /\ pc = "composite"
    /\ updates < MaxUpdates
    /\ \E new_weights \in NewWeightSamples :
          LET done == update_weights(self_weights, self_default_weights, weights_aliased,
                                     new_weights)
          IN  /\ self_weights' = done.weights
              /\ self_default_weights' = done.default_weights
              /\ weights_aliased' = done.aliased
              /\ callee' = "update_weights"
              /\ sim_result' = [ before |-> self_weights, new_weights |-> new_weights,
                                 raised |-> done.raised ]
    /\ updates' = updates + 1
    /\ UNCHANGED << pc, text1, text2, lib >>
    /\ UNCHANGED config_vars
    /\ UNCHANGED pipeline_state_vars
    /\ UNCHANGED orchestrator_vars

\* FieldMatcher._calculate_node_confidence, called directly
CallNodeConfidence ==
    /\ pc = "new"
    /\ \E label_match \in LabelMatchSamples,
          property_matches \in SeqsUpTo(PropertyMatchSamples, MaxProps),
          missing_props \in SeqsUpTo({ P_aB, P_xt }, MaxListed),
          extra_props \in SeqsUpTo({ P_zz }, MaxListed) :
          sim_result' = [ label_match |-> label_match,
                          property_matches |-> property_matches,
                          missing_props |-> missing_props,
                          extra_props |-> extra_props,
                          confidence |-> calculate_node_confidence(
                                             label_match, property_matches,
                                             missing_props, extra_props) ]
    /\ callee' = "calculate_node_confidence"
    /\ pc' = "returned"
    /\ UNCHANGED << text1, text2, lib >>
    /\ UNCHANGED config_vars
    /\ UNCHANGED pipeline_state_vars
    /\ UNCHANGED weight_vars
    /\ UNCHANGED orchestrator_vars

\* _calculate_compliance_level, called directly
CallComplianceLevel ==
    /\ pc = "new"
    /\ \E critical_count \in 0..MaxCritical, important_count \in { 0, 3 },
          compliance_score \in ComplianceScoreSamples :
          sim_result' = [ critical_count |-> critical_count,
                          important_count |-> important_count,
                          compliance_score |-> compliance_score,
                          compliance_level |->
                              calculate_compliance_level(
                                  compliance_score,
                                  sample_recommendations(critical_count, important_count)) ]
    /\ callee' = "calculate_compliance_level"
    /\ pc' = "returned"
    /\ UNCHANGED << text1, text2, lib >>
    /\ UNCHANGED config_vars
    /\ UNCHANGED pipeline_state_vars
    /\ UNCHANGED weight_vars
    /\ UNCHANGED orchestrator_vars

UnitNext ==
    \/ ConstructComposite
    \/ UpdateWeights
    \/ CallNodeConfidence
    \/ CallComplianceLevel

UnitSpec == UnitInit /\ [][UnitNext]_vars

(***************************************************************************)
(* Claims about the calculators (checked under SimSpec)                    *)
(***************************************************************************)
Returned(who) == pc = "returned" /\ callee \in who

\* C4: _classify_match_type maps s >= 0.95 to EXACT, 0.85 <= s < 0.95 to
\* STRONG, 0.70 <= s < 0.85 to MODERATE, 0.50 <= s < 0.70 to WEAK and
\* s < 0.50 to NO_MATCH; the boundaries 0.95, 0.85, 0.70, 0.50 give EXACT,
\* STRONG, MODERATE, WEAK and 0.49 gives NO_MATCH.
C4_ClassificationTable ==
    Returned({"classify"}) =>
        LET s == sim_result.score
            m == sim_result.match_type
        IN  /\ (m = "EXACT") <=> (s >= 9500)
            /\ (m = "STRONG") <=> (s >= 8500 /\ s < 9500)
            /\ (m = "MODERATE") <=> (s >= 7000 /\ s < 8500)
            /\ (m = "WEAK") <=> (s >= 5000 /\ s < 7000)
            /\ (m = "NO_MATCH") <=> (s < 5000)
            /\ (s = 9500 => m = "EXACT") /\ (s = 8500 => m = "STRONG")
            /\ (s = 7000 => m = "MODERATE") /\ (s = 5000 => m = "WEAK")
            /\ (s = 4900 => m = "NO_MATCH")

C4_Witness ==
    /\ Returned({"classify"})
    /\ sim_result.score = 8500
    /\ sim_result.match_type = "STRONG"

\* C7: calculate(a, b) with a or b empty returns score 0.0, confidence 1.0
\* and reason "empty_string", for each of the six calculators, the composite
\* and the adaptive one, whether or not the embedding model is loaded.
C7_EmptyStringSafety ==
    ( /\ Returned(TechniqueSet \cup {"composite", "adaptive"})
      /\ (is_empty(text1) \/ is_empty(text2)) ) =>
        /\ ~sim_result.raised
        /\ sim_result.score = 0
        /\ sim_result.confidence = 10000
        /\ sim_result.metadata.reason = "empty_string"

\* C8: every result of CompositeSimilarity.calculate and of
\* AdaptiveSimilarity.calculate has 0 <= score <= 1 and 0 <= confidence <= 1.
C8_ScoreRange ==
    Returned({"composite", "adaptive"}) =>
        /\ sim_result.score >= 0 /\ sim_result.score <= 10000
        /\ sim_result.confidence >= 0 /\ sim_result.confidence <= 10000

RECURSIVE SumOver(_, _)
SumOver(S, f) ==
    IF S = {} THEN 0
    ELSE LET k == CHOOSE k \in S : TRUE
         IN  f[k] + SumOver(S \ {k}, f)

\* C9: when any subset of the six calculators raises, the composite still
\* returns a result; a failing technique adds nothing to the weighted score
\* or confidence and has its error recorded under its name in
\* individual_results; the others contribute as if nothing had failed.
C9_CompositeResilience ==
    ( /\ Returned({"composite"})
      /\ ~is_empty(text1) /\ ~is_empty(text2) ) =>
        LET failing == { k \in TechniqueSet :
                           calculator_calculate(k, text1, text2, lib, model_loaded).raised }
            working == TechniqueSet \ failing
            alone == [ k \in TechniqueSet |->
                         calculator_calculate(k, text1, text2,
                                              [ lib EXCEPT !.raises = {} ], model_loaded) ]
            w == default_weights
            score_sum == SumOver(working, [ k \in TechniqueSet |-> alone[k].score * w[k] ]) \div 100
            conf_sum == SumOver(working, [ k \in TechniqueSet |-> alone[k].confidence * w[k] ]) \div 100
            high == Cardinality({ k \in working : alone[k].score >= 8000 })
            bonus == IF 500 * high < 1500 THEN 500 * high ELSE 1500
            individual == sim_result.metadata.individual_results
        IN  /\ ~sim_result.raised
            /\ \A k \in failing : individual[k].metadata.error
            /\ \A k \in working :
                  /\ individual[k].score = alone[k].score
                  /\ individual[k].confidence = alone[k].confidence
            /\ sim_result.score = (IF score_sum + bonus > 10000 THEN 10000 ELSE score_sum + bonus)
            /\ sim_result.confidence = (IF conf_sum > 10000 THEN 10000 ELSE conf_sum)

C9_Witness ==
    /\ Returned({"composite"})
    /\ ~is_empty(text1) /\ ~is_empty(text2)
    /\ model_loaded
    /\ lib.raises = { "fuzzy", "semantic" }
    /\ ~sim_result.raised
    /\ sim_result.score > 0
    /\ sim_result.metadata.individual_results["fuzzy"].metadata.error

(***************************************************************************)
(* Claims about match_schemas and compare_schemas (checked under Spec)     *)
(***************************************************************************)
MatchedNodes == { i \in 1..Len(node_matches) : node_matches[i].target_node # None }

MatchedRelationships ==
    { i \in 1..Len(relationship_matches) : relationship_matches[i].target_relationship # None }

\* the label, type and property FieldMatches of all matched pairs so far
AllFieldMatches ==
    { node_matches[i].label_match : i \in MatchedNodes }
    \cup { relationship_matches[i].type_match : i \in MatchedRelationships }
    \cup UNION { { node_matches[i].property_matches[n] :
                     n \in 1..Len(node_matches[i].property_matches) } : i \in MatchedNodes }
    \cup UNION { { relationship_matches[i].property_matches[n] :
                     n \in 1..Len(relationship_matches[i].property_matches) } :
                 i \in MatchedRelationships }

distinct_property_targets(property_matches) ==
    Cardinality({ property_matches[n].target_field : n \in 1..Len(property_matches) })
        = Len(property_matches)

\* C1: among the node matches, among the relationship matches and among the
\* property matches of each matched pair, the number of distinct target
\* names of the non-null matches equals the number of non-null matches: no
\* two source elements are assigned the same target.
C1_Exclusivity ==
    /\ Cardinality({ node_matches[i].target_node.label : i \in MatchedNodes })
           = Cardinality(MatchedNodes)
    /\ Cardinality({ relationship_matches[i].target_relationship.type :
                       i \in MatchedRelationships })
           = Cardinality(MatchedRelationships)
    /\ \A i \in MatchedNodes : distinct_property_targets(node_matches[i].property_matches)
    /\ \A i \in MatchedRelationships :
           distinct_property_targets(relationship_matches[i].property_matches)

\* two customer nodes are matched, and the second one scores higher against
\* the target the first one took than against the target it got
C1_Witness ==
    /\ pc = "done"
    /\ Len(node_matches) = 2
    /\ MatchedNodes = { 1, 2 }
    /\ engine_calculate(node_matches[2].source_node.label,
                        node_matches[1].target_node.label).score
           > node_matches[2].label_match.similarity_result.score

\* C2: for every threshold in [0, 1], 0 and 1 included, a node or relationship
\* match with a target has a label / type score >= threshold, and one
\* without a target has every tracked candidate score < threshold.
C2_ThresholdRespect ==
    /\ \A i \in 1..Len(node_matches) :
          LET m == node_matches[i]
          IN  IF m.target_node # None
              THEN m.label_match.similarity_result.score >= similarity_threshold
              ELSE \A k \in 1..Len(m.all_candidates) :
                       m.all_candidates[k].score < similarity_threshold
    /\ \A i \in 1..Len(relationship_matches) :
          LET m == relationship_matches[i]
          IN  IF m.target_relationship # None
              THEN m.type_match.similarity_result.score >= similarity_threshold
              ELSE \A k \in 1..Len(m.all_candidates) :
                       m.all_candidates[k].score < similarity_threshold

\* position, in target_names, of the first of the highest-scoring names that
\* are not in used and meet the threshold; 0 when there is none
greedy_choice(source_name, target_names, used) ==
    LET score(k) == engine_calculate(source_name, target_names[k]).score
        eligible == { k \in 1..Len(target_names) :
                        target_names[k] \notin used /\ score(k) >= similarity_threshold }
    IN  IF eligible = {} THEN 0
        ELSE CHOOSE k \in eligible :
                 \A j \in eligible : score(j) < score(k) \/ (score(j) = score(k) /\ k <= j)

\* C3: the target assigned to a source element is the highest-scoring one
\* among the targets that earlier source elements have not used and that
\* meet the threshold, the first in the standard list among equals; a used
\* target is neither scored nor chosen.
C3_GreedySelection ==
    /\ \A i \in 1..Len(node_matches) :
          LET m == node_matches[i]
              used == { node_matches[j].target_node.label : j \in { j \in MatchedNodes : j < i } }
              choice == greedy_choice(m.source_node.label, node_labels(standard_schema.nodes), used)
          IN  /\ \A k \in 1..Len(m.all_candidates) : m.all_candidates[k].name \notin used
              /\ IF choice = 0 THEN m.target_node = None
                 ELSE m.target_node = standard_schema.nodes[choice]
    /\ \A i \in 1..Len(relationship_matches) :
          LET m == relationship_matches[i]
              used == { relationship_matches[j].target_relationship.type :
                          j \in { j \in MatchedRelationships : j < i } }
              choice == greedy_choice(m.source_relationship.type,
                                      relationship_types(standard_schema.relationships), used)
          IN  /\ \A k \in 1..Len(m.all_candidates) : m.all_candidates[k].name \notin used
              /\ IF choice = 0 THEN m.target_relationship = None
                 ELSE m.target_relationship = standard_schema.relationships[choice]
    /\ \A i \in MatchedNodes :
          LET m == node_matches[i]
              names == property_names(m.target_node.properties)
          IN  \A n \in 1..Len(m.property_matches) :
                  LET used == { m.property_matches[j].target_field : j \in 1..(n - 1) }
                      choice == greedy_choice(m.property_matches[n].source_field, names, used)
                  IN  choice # 0 /\ m.property_matches[n].target_field = names[choice]

case_override_holds(field_match) ==
    ( /\ is_case_only_diff(field_match.source_field, field_match.target_field)
      /\ field_match.similarity_result.score >= 9500 )
        => field_match.match_type = "STRONG"

\* C5: a matched node label, relationship type or property whose two names
\* are equal after lowercasing but not as written, with a score >= 0.95, has
\* match type STRONG and never EXACT.
C5_CaseOverride == \A field_match \in AllFieldMatches : case_override_holds(field_match)

C5_Witness ==
    \E i \in MatchedNodes :
        /\ is_case_only_diff(node_matches[i].source_node.label, node_matches[i].target_node.label)
        /\ node_matches[i].label_match.similarity_result.score >= 9500
        /\ node_matches[i].label_match.match_type = "STRONG"

has_case_message(field_match) ==
    \E n \in 1..Len(field_match.recommendations) :
        recommendation_contains(field_match.recommendations[n], "case sensitivity")

case_message_in_style(field_match) ==
    LET style == enhanced.categorized_recommendations.style
    IN  \E n \in 1..Len(field_match.recommendations) :
            /\ recommendation_contains(field_match.recommendations[n], "case sensitivity")
            /\ \E e \in 1..Len(style) : style[e].message = field_match.recommendations[n]

\* C6: every matched node label, relationship type or property whose
\* customer name differs from the standard name only in letter case has a
\* "case sensitivity" message in its recommendations, and compare_schemas
\* puts that message into categorized_recommendations['style'].
C6_CaseRecommendation ==
    \A field_match \in AllFieldMatches :
        is_case_only_diff(field_match.source_field, field_match.target_field) =>
            /\ has_case_message(field_match)
            /\ pc = "done" => case_message_in_style(field_match)

semantic_unavailable(field_match) ==
    LET semantic == field_match.similarity_result.metadata.individual_results["semantic"]
    IN  /\ semantic.score = 0
        /\ semantic.confidence = 0
        /\ semantic.metadata.reason = "model_not_available"

\* C10: when the embedding backend is unavailable, building the FieldMatcher
\* does not raise, match_schemas runs to its end with the other five
\* techniques, and the semantic calculator gives score 0, confidence 0 and
\* reason "model_not_available".
C10_BackendUnavailable ==
    backend # "ok" =>
        /\ pc # "raised"
        /\ ~model_loaded
        /\ \A field_match \in AllFieldMatches : semantic_unavailable(field_match)

(***************************************************************************)
(* Claims about the weights (C11 under UnitSpec, C12 under SimSpec)        *)
(***************************************************************************)
\* C11: after update_weights(partial) with valid technique names and a
\* positive merged sum the weights sum to 1.0 and each weight is its merged
\* value divided by the merged sum; update_weights({'fuzzy': 0.9}) on a
\* default composite leaves fuzzy the largest weight; an invalid technique
\* name raises and leaves the weights unchanged.
C11_WeightRenormalization ==
    (pc = "composite" /\ callee = "update_weights") =>
        LET before == sim_result.before
            new_weights == sim_result.new_weights
            keys == DOMAIN before.w \cup DOMAIN new_weights
            \* merged values over the denominator before.unit * 100
            merged == [ k \in keys |-> IF k \in DOMAIN new_weights
                                       THEN new_weights[k] * before.unit
                                       ELSE before.w[k] * 100 ]
            merged_sum == SumOver(keys, merged)
            valid == DOMAIN new_weights \subseteq TechniqueSet
        IN  /\ (valid /\ merged_sum > 0) =>
                  /\ ~sim_result.raised
                  /\ DOMAIN self_weights.w = keys
                  /\ SumOver(keys, self_weights.w) = self_weights.unit
                  /\ \A k \in keys :
                        self_weights.w[k] * merged_sum = merged[k] * self_weights.unit
            /\ (before = Hundredths(default_weights) /\ new_weights = [ fuzzy |-> 90 ]) =>
                  \A k \in TechniqueSet \ {"fuzzy"} :
                      self_weights.w[k] < self_weights.w["fuzzy"]
            /\ ~valid => (sim_result.raised /\ self_weights = before)

C11_Witness ==
    /\ pc = "composite" /\ callee = "update_weights"
    /\ sim_result.before = Hundredths(default_weights)
    /\ sim_result.new_weights = [ fuzzy |-> 90 ]
    /\ self_weights = [ w |-> [ levenshtein |-> 2, jaro_winkler |-> 3, fuzzy |-> 18,
                                abbreviation |-> 7, semantic |-> 1, contextual |-> 1 ],
                        unit |-> 32 ]

\* C12: the weight vector CompositeSimilarity.calculate uses sums to 1.0,
\* also when it comes from the weights argument of calculate.
C12_UsedWeightsSumToOne ==
    ( /\ Returned({"composite", "composite_weights"})
      /\ ~is_empty(text1) /\ ~is_empty(text2) ) =>
        weight_sum(sim_result.metadata.weights_used) = 100

(***************************************************************************)
(* Claims about the confidences and the compliance (C13, C15 under         *)
(* UnitSpec; C14 under Spec)                                               *)
(***************************************************************************)
\* the list without its i-th element
remove_at(list, i) == SubSeq(list, 1, i - 1) \o SubSeq(list, i + 1, Len(list))

\* C13: with the label match and the property matches fixed, one more
\* missing mandatory property never increases the node confidence and one
\* extra property less never decreases it; the confidence is in [0,1] and
\* is 0 when there is no label match.
C13_ConfidenceMonotone ==
    (pc = "returned" /\ callee = "calculate_node_confidence") =>
        LET label_match == sim_result.label_match
            property_matches == sim_result.property_matches
            missing_props == sim_result.missing_props
            extra_props == sim_result.extra_props
            confidence == sim_result.confidence
        IN  /\ 0 <= confidence.num /\ confidence.num <= confidence.den
            /\ label_match = None => confidence.num = 0
            /\ frac_le(calculate_node_confidence(label_match, property_matches,
                                                 Append(missing_props, P_aB), extra_props),
                       confidence)
            /\ \A i \in 1..Len(extra_props) :
                  frac_le(confidence,
                          calculate_node_confidence(label_match, property_matches,
                                                    missing_props, remove_at(extra_props, i)))

C13_Witness ==
    /\ pc = "returned" /\ callee = "calculate_node_confidence"
    /\ sim_result.label_match # None
    /\ Len(sim_result.property_matches) = 2
    /\ Len(sim_result.extra_props) = 2
    /\ \E i \in 1..Len(sim_result.missing_props) : sim_result.missing_props[i].mandatory
    /\ 0 < sim_result.confidence.num
    /\ ~frac_le(sim_result.confidence,
                calculate_node_confidence(sim_result.label_match, sim_result.property_matches,
                                          Append(sim_result.missing_props, P_aB),
                                          sim_result.extra_props))
    /\ ~frac_le(calculate_node_confidence(sim_result.label_match, sim_result.property_matches,
                                          sim_result.missing_props,
                                          Tail(sim_result.extra_props)),
                sim_result.confidence)

\* C15: compliance_level depends on the number of critical entries and on
\* the compliance score only: excellent (0 critical, score >= 0.95), good
\* (0 critical, >= 0.85), fair (at most 2 critical, >= 0.70), poor (at most
\* 5 critical, >= 0.50), otherwise critical.
C15_ComplianceLevel ==
    (pc = "returned" /\ callee = "calculate_compliance_level") =>
        LET critical_count == sim_result.critical_count
            \* the score in ten-thousandths
            score == (sim_result.compliance_score.num * 10000)
                         \div sim_result.compliance_score.den
        IN  sim_result.compliance_level =
                CASE critical_count = 0 /\ score >= 9500 -> "excellent"
                  [] critical_count = 0 /\ score >= 8500 /\ score < 9500 -> "good"
                  [] critical_count = 0 /\ score >= 7000 /\ score < 8500 -> "fair"
                  [] critical_count \in 1..2 /\ score >= 7000 -> "fair"
                  [] critical_count \in 0..2 /\ score >= 5000 /\ score < 7000 -> "poor"
                  [] critical_count \in 3..5 /\ score >= 5000 -> "poor"
                  [] OTHER -> "critical"

C15_Witness ==
    /\ pc = "returned" /\ callee = "calculate_compliance_level"
    /\ sim_result.critical_count = 2
    /\ sim_result.important_count = 3
    /\ sim_result.compliance_score = Fraction(7000, 10000)
    /\ sim_result.compliance_level = "fair"

\* least common multiple of the denominators of the overall confidences
RECURSIVE common_denominator(_, _)
common_denominator(matches, n) ==
    IF n = 0 THEN 1
    ELSE LET before == common_denominator(matches, n - 1)
             den == matches[n].overall_confidence.den
         IN  (before \div gcd(before, den)) * den

\* C14: overall_compliance_score is the arithmetic mean of overall_confidence
\* over all node and relationship match records, the unmatched ones counting
\* 0, and it is 0.0 when there is no record; no step of match_schemas or of
\* the enhancement raises, whichever lists are empty: the only exception is
\* the one of the constructor, before any list is read.
C14_ComplianceScore ==
    /\ pc \in { "matched", "done" } =>
          LET records == node_matches \o relationship_matches
              den == common_denominator(records, Len(records))
              total == SumOver(1..Len(records),
                               [ i \in 1..Len(records) |->
                                   records[i].overall_confidence.num
                                       * (den \div records[i].overall_confidence.den) ])
              score == summary.overall_compliance_score
          IN  /\ \A i \in 1..Len(node_matches) :
                    node_matches[i].target_node = None
                        => node_matches[i].overall_confidence.num = 0
              /\ \A i \in 1..Len(relationship_matches) :
                    relationship_matches[i].target_relationship = None
                        => relationship_matches[i].overall_confidence.num = 0
              /\ IF Len(records) = 0 THEN score.num = 0
                 ELSE score.num * (den * Len(records)) = total * score.den
    /\ pc = "raised" => (backend = "load_error" /\ summary = NoValue)
    /\ pc = "done" =>
          enhanced.compliance_level \in { "excellent", "good", "fair", "poor", "critical" }

\* two customer nodes, one matched with a positive confidence and one not
\* matched: the score is half the confidence of the matched one
C14_Witness ==
    /\ pc = "done"
    /\ Len(node_matches) = 2 /\ Len(relationship_matches) = 0
    /\ Cardinality(MatchedNodes) = 1
    /\ summary.overall_compliance_score.num > 0
    /\ \E i \in MatchedNodes :
          summary.overall_compliance_score =
              Fraction(node_matches[i].overall_confidence.num,
                       2 * node_matches[i].overall_confidence.den)

(***************************************************************************)
(* Claims about the categorized recommendations and the match records      *)
(* (checked under Spec)                                                    *)
(***************************************************************************)
\* the property definition of the given name in a property list
property_named(props, name) ==
    props[CHOOSE i \in 1..Len(props) : props[i].property = name]

entries_of(bucket, type) ==
    { i \in 1..Len(enhanced.categorized_recommendations[bucket]) :
        enhanced.categorized_recommendations[bucket][i].type = type }

\* the matched property pairs of one matched node or relationship are all
\* reported as critical where the types or the mandatory flags disagree
mismatches_are_critical(property_matches, customer_props, standard_props, field_type) ==
    \A n \in 1..Len(property_matches) :
        LET customer_prop == property_named(customer_props, property_matches[n].source_field)
            standard_prop == property_named(standard_props, property_matches[n].target_field)
            reported(kind) ==
                \E i \in entries_of("critical", << field_type, kind >>) :
                    LET message == enhanced.categorized_recommendations.critical[i].message
                    IN  /\ message.source = customer_prop.property
                        /\ message.target = standard_prop.property
        IN  /\ customer_prop.type # standard_prop.type => reported("type_mismatch")
            /\ (standard_prop.mandatory /\ ~customer_prop.mandatory)
                  => reported("mandatory_mismatch")

\* C16: every matched property pair, on a node or on a relationship, whose
\* type lists differ or whose standard is mandatory while the customer is
\* optional has an entry in categorized_recommendations['critical'],
\* whatever the match type of the property match.
C16_MismatchesCritical ==
    pc = "done" =>
        /\ \A i \in MatchedNodes :
              mismatches_are_critical(node_matches[i].property_matches,
                                      node_matches[i].source_node.properties,
                                      node_matches[i].target_node.properties,
                                      "node_property")
        /\ \A i \in MatchedRelationships :
              mismatches_are_critical(relationship_matches[i].property_matches,
                                      relationship_matches[i].source_relationship.properties,
                                      relationship_matches[i].target_relationship.properties,
                                      "relationship_property")

\* the standard properties of a matched pair that no property match claimed
unclaimed(property_matches, standard_props) ==
    { j \in 1..Len(standard_props) :
        \A n \in 1..Len(property_matches) :
            property_matches[n].target_field # standard_props[j].property }

\* the unclaimed standard properties of one matched element are routed:
\* mandatory ones to 'critical', optional ones to 'important' only
missing_are_routed(owner, property_matches, standard_props) ==
    \A j \in unclaimed(property_matches, standard_props) :
        LET in_bucket(bucket, type) ==
                Cardinality({ i \in entries_of(bucket, type) :
                                enhanced.categorized_recommendations[bucket][i].message
                                    = << owner, standard_props[j].property >> })
        IN  IF standard_props[j].mandatory
            THEN in_bucket("critical", << "missing_mandatory_property" >>) >= 1
            ELSE /\ in_bucket("important", << "missing_optional_property" >>) >= 1
                 /\ in_bucket("critical", << "missing_mandatory_property" >>) = 0
                 /\ in_bucket("critical", << "missing_optional_property" >>) = 0

\* C17: for every matched node and every matched relationship, each standard
\* property left unclaimed yields one entry in 'critical' if it is mandatory
\* and one entry in 'important', and none in 'critical', if it is optional.
C17_MissingPropertyRouting ==
    pc = "done" =>
        /\ \A i \in MatchedNodes :
              missing_are_routed(node_matches[i].source_node.label,
                                 node_matches[i].property_matches,
                                 node_matches[i].target_node.properties)
        /\ \A i \in MatchedRelationships :
              missing_are_routed(relationship_matches[i].source_relationship.type,
                                 relationship_matches[i].property_matches,
                                 relationship_matches[i].target_relationship.properties)
        /\ Cardinality(entries_of("critical", << "missing_mandatory_property" >>))
             + Cardinality(entries_of("important", << "missing_optional_property" >>))
               = SumOver(MatchedNodes,
                         [ i \in MatchedNodes |->
                             Cardinality(unclaimed(node_matches[i].property_matches,
                                                   node_matches[i].target_node.properties)) ])
                 + SumOver(MatchedRelationships,
                           [ i \in MatchedRelationships |->
                               Cardinality(unclaimed(
                                   relationship_matches[i].property_matches,
                                   relationship_matches[i].target_relationship.properties)) ])

(***************************************************************************)
(* Claims about unmatched elements (checked under Spec)                    *)
(***************************************************************************)
\* _match_nodes run on the first n nodes of a customer node list
RECURSIVE nodes_matched(_, _)
nodes_matched(nodes, n) ==
    IF n = 0 THEN [ used |-> {}, matches |-> << >> ]
    ELSE LET before == nodes_matched(nodes, n - 1)
             step == match_node(nodes[n], standard_schema.nodes, before.used)
         IN  [ used |-> step.used, matches |-> Append(before.matches, step.match) ]

\* overall_compliance_score of the customer schema without its i-th node
score_without_node(nodes, i) ==
    calculate_compliance_score(nodes_matched(remove_at(nodes, i), Len(nodes) - 1).matches,
                               relationship_matches)

\* the customer nodes for which no standard node reaches the threshold
UnreachedNodes ==
    { i \in 1..Len(customer_schema.nodes) :
        \A k \in 1..Len(standard_schema.nodes) :
            engine_calculate(customer_schema.nodes[i].label,
                             standard_schema.nodes[k].label).score < similarity_threshold }

\* the record and the critical entry of the customer node i: no target, no
\* label match, confidence 0, and as many 'unmatched_node' entries naming
\* its label as there are unmatched nodes of that label
unmatched_as_specified(i) ==
    /\ node_matches[i].source_node = customer_schema.nodes[i]
    /\ node_matches[i].target_node = None
    /\ node_matches[i].label_match = None
    /\ node_matches[i].overall_confidence = Fraction(0, 1)
    /\ Cardinality({ e \in entries_of("critical", << "unmatched_node" >>) :
                       enhanced.categorized_recommendations.critical[e].message
                           = customer_schema.nodes[i].label })
         = Cardinality({ j \in 1..Len(node_matches) :
                           /\ node_matches[j].target_node = None
                           /\ node_matches[j].source_node.label
                                  = customer_schema.nodes[i].label })

\* C18 as stated: a customer node for which no standard node reaches the
\* threshold has a NodeMatch without target and with confidence 0, one
\* 'unmatched_node' critical entry, and the overall_compliance_score is
\* strictly lower than the one of the same customer schema without the node.
C18_UnmatchedLowersScore ==
    pc = "done" =>
        \A i \in UnreachedNodes :
            /\ unmatched_as_specified(i)
            /\ ~frac_le(score_without_node(customer_schema.nodes, i),
                        summary.overall_compliance_score)

\* C18 amended: as above, but the overall_compliance_score is at most the
\* one of the customer schema without the node, and strictly lower exactly
\* when the schema without the node has a score above 0.
C18_UnmatchedNeverRaisesScore ==
    pc = "done" =>
        \A i \in UnreachedNodes :
            /\ unmatched_as_specified(i)
            /\ frac_le(summary.overall_compliance_score,
                       score_without_node(customer_schema.nodes, i))
            /\ score_without_node(customer_schema.nodes, i).num > 0
                  <=> ~frac_le(score_without_node(customer_schema.nodes, i),
                               summary.overall_compliance_score)

\* two customer nodes, the first matched with a positive confidence, the
\* second below the threshold against every standard node: the score is
\* half of what it is without the second node
C18_Witness ==
    /\ pc = "done"
    /\ Len(node_matches) = 2
    /\ UnreachedNodes = { 2 }
    /\ node_matches[1].target_node # None
    /\ node_matches[2].target_node = None
    /\ Cardinality(entries_of("critical", << "unmatched_node" >>)) = 1
    /\ summary.overall_compliance_score.num > 0
    /\ score_without_node(customer_schema.nodes, 2) = node_matches[1].overall_confidence
    /\ summary.overall_compliance_score
         = Fraction(node_matches[1].overall_confidence.num,
                    2 * node_matches[1].overall_confidence.den)

\* no FieldMatch of a list has the match type NO_MATCH
none_is_no_match(field_matches) ==
    \A n \in 1..Len(field_matches) : field_matches[n].match_type # "NO_MATCH"

\* the names of the standard elements the records before the i-th one took
taken_before(targets, i) == { targets[j] : j \in { j \in 1..(i - 1) : targets[j] # None } }

\* some standard element that no earlier record took meets the threshold
\* for source_name
some_unused_qualifies(source_name, target_names, taken) ==
    \E k \in 1..Len(target_names) :
        /\ target_names[k] \notin taken
        /\ engine_calculate(source_name, target_names[k]).score >= similarity_threshold

\* C19: for every threshold in [0,1], a NodeMatch or RelationshipMatch with
\* a target has no label, type or property FieldMatch of match type
\* NO_MATCH, and the target is null exactly when no standard element that is
\* still unused met the threshold.
C19_NoMatchIsNullTarget ==
    pc = "done" =>
        /\ \A i \in 1..Len(node_matches) :
              LET m == node_matches[i]
                  taken == taken_before([ j \in 1..Len(node_matches) |->
                                            IF node_matches[j].target_node = None THEN None
                                            ELSE node_matches[j].target_node.label ], i)
              IN  /\ m.target_node # None =>
                        /\ m.label_match.match_type # "NO_MATCH"
                        /\ none_is_no_match(m.property_matches)
                  /\ m.target_node = None
                        <=> ~some_unused_qualifies(m.source_node.label,
                                                   node_labels(standard_schema.nodes), taken)
        /\ \A i \in 1..Len(relationship_matches) :
              LET m == relationship_matches[i]
                  taken == taken_before([ j \in 1..Len(relationship_matches) |->
                                            IF relationship_matches[j].target_relationship = None
                                            THEN None
                                            ELSE relationship_matches[j].target_relationship.type ],
                                        i)
              IN  /\ m.target_relationship # None =>
                        /\ m.type_match.match_type # "NO_MATCH"
                        /\ none_is_no_match(m.property_matches)
                  /\ m.target_relationship = None
                        <=> ~some_unused_qualifies(m.source_relationship.type,
                                                   relationship_types(standard_schema.relationships),
                                                   taken)

(***************************************************************************)
(* Claims about the missing and the extra properties (checked under Spec)  *)
(***************************************************************************)
\* the properties of the two sides of one matched element are each in one
\* property match, or missing, or extra, and in one only
accounted_once(customer_props, standard_props, property_matches, missing_props, extra_props) ==
    LET claimed == { property_matches[n].target_field : n \in 1..Len(property_matches) }
        claiming == { property_matches[n].source_field : n \in 1..Len(property_matches) }
    IN  \* the unclaimed standard properties are the missing ones
        /\ \A j \in unclaimed(property_matches, standard_props) :
              \E n \in 1..Len(missing_props) : missing_props[n] = standard_props[j]
        /\ \A n \in 1..Len(missing_props) : missing_props[n].property \notin claimed
        \* the extra ones are customer properties that claimed nothing
        /\ \A n \in 1..Len(extra_props) :
              /\ extra_props[n].property \notin claiming
              /\ \E k \in 1..Len(customer_props) : customer_props[k] = extra_props[n]
        \* no standard property is claimed twice
        /\ Cardinality(claimed) = Len(property_matches)
        \* every property is in one of the lists, once
        /\ Len(standard_props) = Len(property_matches) + Len(missing_props)
        /\ Len(customer_props) = Len(property_matches) + Len(extra_props)

\* C20: inside a matched node or relationship, every standard property no
\* customer property claimed is in missing_properties, every customer
\* property that claimed no standard property is in extra_properties, and
\* every property of either side is accounted for exactly once: in one
\* property match, or as missing, or as extra.
C20_MissingAndExtra ==
    pc = "done" =>
        /\ \A i \in MatchedNodes :
              accounted_once(node_matches[i].source_node.properties,
                             node_matches[i].target_node.properties,
                             node_matches[i].property_matches,
                             node_matches[i].missing_properties,
                             node_matches[i].extra_properties)
        /\ \A i \in MatchedRelationships :
              accounted_once(relationship_matches[i].source_relationship.properties,
                             relationship_matches[i].target_relationship.properties,
                             relationship_matches[i].property_matches,
                             relationship_matches[i].missing_properties,
                             relationship_matches[i].extra_properties)

(***************************************************************************)
(* Claims about the frame of update_weights (checked under UnitSpec)       *)
(***************************************************************************)
\* C28: update_weights never modifies default_weights: after any sequence
\* of calls default_weights is still the vector of the constructor
\* (levenshtein 0.10, jaro_winkler 0.15, fuzzy 0.30, abbreviation 0.35,
\* semantic 0.05, contextual 0.05), and an update with valid names whose
\* merged weights do not sum to more than 0 resets weights to that vector.
C28_DefaultWeightsUnmodified ==
    pc = "composite" =>
        /\ self_default_weights = Hundredths(default_weights)
        /\ ( /\ callee = "update_weights"
             /\ DOMAIN sim_result.new_weights \subseteq TechniqueSet
             /\ LET merged == merge_weights(sim_result.before, sim_result.new_weights)
                IN  dict_sum(merged.w, DOMAIN merged.w) <= 0 )
              => self_weights = Hundredths(default_weights)

(***************************************************************************)
(* Claims about the adaptive weights (checked under SimSpec)               *)
(***************************************************************************)
\* C30: for every pair of non-empty strings (short or abbreviation-like,
\* long, both camelCase) every weight of the vector of
\* _compute_adaptive_weights is non-negative and the vector sums to 1.0.
C30_AdaptiveWeightsNonNegative ==
    ( /\ Returned({"adaptive"})
      /\ ~is_empty(text1) /\ ~is_empty(text2) ) =>
        /\ sim_result.metadata.adaptive_weights = compute_adaptive_weights(text1, text2)
        /\ \A k \in TechniqueSet : sim_result.metadata.adaptive_weights[k] >= 0
        /\ weight_sum(sim_result.metadata.adaptive_weights) = 100

(***************************************************************************)
(* Claims about the match type of property matches (checked under Spec)    *)
(***************************************************************************)
\* the property matches of all matched nodes and relationships
AllPropertyMatches ==
    UNION { { node_matches[i].property_matches[n] :
                n \in 1..Len(node_matches[i].property_matches) } : i \in MatchedNodes }
    \cup UNION { { relationship_matches[i].property_matches[n] :
                     n \in 1..Len(relationship_matches[i].property_matches) } :
                   i \in MatchedRelationships }

\* snake is a snake_case name and camel is its camelCase rendering
snake_and_camel(snake, camel) ==
    has_underscore(snake) /\ underscore_to_camel_upto(snake, Len(snake)) = camel

\* C23: a property match whose score classifies as EXACT and whose names
\* differ only by underscore-versus-camelCase formatting is reported as
\* STRONG, with the snake_case name on the customer side and with the
\* snake_case name on the standard side.
C23_FormattingDowngrade ==
    pc = "done" =>
        \A m \in AllPropertyMatches :
            ( /\ classify_match_type(m.similarity_result.score) = "EXACT"
              /\ \/ snake_and_camel(m.source_field, m.target_field)
                 \/ snake_and_camel(m.target_field, m.source_field) )
                => m.match_type = "STRONG"

\* C27: a property match whose customer name and standard name are the
\* same string has the match type of its score: it is never downgraded,
\* all-lowercase names without underscores included.
C27_IdenticalNamesKeepType ==
    pc = "done" =>
        \A m \in AllPropertyMatches :
            m.source_field = m.target_field
                => m.match_type = classify_match_type(m.similarity_result.score)

names_best_technique(rationale, field_match) ==
    /\ rationale.primary_tech \in TechniqueSet
    /\ \A t \in TechniqueSet :
          field_match.similarity_result.metadata.individual_results[t].score
              <= field_match.similarity_result.metadata
                     .individual_results[rationale.primary_tech].score

\* C22: every FieldMatch of match_schemas has technique_contributions
\* giving the individual score of each of the six techniques, taken from
\* the metadata of the composite result, and the match rationale names the
\* highest-scoring of them as the primary reason.
C22_Explainability ==
    pc = "done" =>
        /\ \A m \in AllFieldMatches :
              /\ DOMAIN m.technique_contributions = TechniqueSet
              /\ \A t \in TechniqueSet :
                    m.technique_contributions[t]
                        = m.similarity_result.metadata.individual_results[t].score
        /\ \A i \in MatchedNodes :
              names_best_technique(node_matches[i].match_rationale, node_matches[i].label_match)
        /\ \A i \in MatchedRelationships :
              names_best_technique(relationship_matches[i].match_rationale,
                                   relationship_matches[i].type_match)

(***************************************************************************)
(* Claims about missing indexes                                            *)
(***************************************************************************)
\* the two indexes have the same kind and the same property names, in any order
same_index_key(a, b) ==
    /\ a.type = b.type
    /\ Len(a.properties) = Len(b.properties)
    /\ \A x \in { a.properties[i] : i \in 1..Len(a.properties) } :
          Cardinality({ i \in 1..Len(a.properties) : a.properties[i] = x })
              = Cardinality({ i \in 1..Len(b.properties) : b.properties[i] = x })

\* the positions of the standard indexes of matched node i whose key the
\* customer node does not have
absent_indexes(i) ==
    { k \in 1..Len(node_matches[i].target_node.indexes) :
        \A j \in 1..Len(node_matches[i].source_node.indexes) :
            ~same_index_key(node_matches[i].target_node.indexes[k],
                            node_matches[i].source_node.indexes[j]) }

\* the statement that creates an index of the kind
creation_statement(kind) ==
    CASE kind = "PROPERTY" -> "CREATE INDEX"
      [] kind = "FULLTEXT" -> "CREATE FULLTEXT INDEX"
      [] OTHER -> NoValue

\* the entry is the one of standard index idx missing on the customer node
reports_index(entry, i, idx) ==
    /\ entry.element_label = node_matches[i].source_node.label
    /\ entry.index_type = idx.type
    /\ entry.properties = idx.properties

\* C24 (detection): the missing_indexes entries are, one for one, the
\* standard indexes of matched nodes whose key (kind plus sorted property
\* names) is not among the keys of the customer node's indexes.
C24_MissingIndexesDetected ==
    pc = "done" =>
        LET entries == enhanced.recommendations_by_type.missing_indexes
        IN  /\ MatchedNodes = {} => entries = << >>
            /\ \A i \in MatchedNodes :
                  /\ Len(entries) = Cardinality(absent_indexes(i))
                  /\ \A k \in absent_indexes(i) :
                        Cardinality({ n \in 1..Len(entries) :
                                        reports_index(entries[n], i,
                                                      node_matches[i].target_node.indexes[k]) })
                            = Cardinality({ l \in absent_indexes(i) :
                                              node_matches[i].target_node.indexes[l]
                                                  = node_matches[i].target_node.indexes[k] })

\* C24: for each matched node whose standard node defines indexes, every
\* standard index whose key (kind plus sorted property names) is absent
\* from the customer node's index keys yields exactly one missing_indexes
\* entry, and that entry carries a creation command for its kind: CREATE
\* INDEX for kind PROPERTY, CREATE FULLTEXT INDEX for kind FULLTEXT.
C24_MissingIndexes ==
    /\ C24_MissingIndexesDetected
    /\ pc = "done" =>
          \A n \in 1..Len(enhanced.recommendations_by_type.missing_indexes) :
              LET entry == enhanced.recommendations_by_type.missing_indexes[n]
              IN  entry.index_type \in { "PROPERTY", "FULLTEXT" } =>
                      entry.cypher_command.statement = creation_statement(entry.index_type)

\* a full-text index of the standard is reported with its creation command
C24_FullTextReported ==
    /\ pc = "done"
    /\ \E n \in 1..Len(enhanced.recommendations_by_type.missing_indexes) :
          LET entry == enhanced.recommendations_by_type.missing_indexes[n]
          IN  /\ entry.index_type = "FULLTEXT"
              /\ entry.cypher_command.statement = "CREATE FULLTEXT INDEX"
    /\ \E i \in MatchedNodes :
          /\ node_matches[i].source_node.indexes # << >>
          /\ absent_indexes(i) # 1..Len(node_matches[i].target_node.indexes)

(***************************************************************************)
(* Claims about the orchestrator                                           *)
(***************************************************************************)
\* C29: over any sequence of get_standard_schema calls in one process,
\* fetch_markdown_content is invoked at most once; after the first call has
\* returned (with the parsed schema, or with the hardcoded fallback when
\* fetching or parsing failed), every later call returns that same cached
\* GraphSchema without fetching.
C29_StandardSchemaCache ==
    [][ /\ fetch_count' <= 1
        /\ call_count' > 0 => returned_schema' # None /\ returned_schema' = cached_schema'
        /\ call_count > 0 => returned_schema' = returned_schema /\ fetch_count' = fetch_count
      ]_vars

\* a later call has returned the fallback the first call cached after one
\* failed fetch
C29_Witness ==
    /\ call_count >= 2
    /\ fetch_count = 1
    /\ returned_schema = FallbackSchema
    /\ cached_schema = FallbackSchema

\* C25: SchemaComparator.compare_schemas(existing_schema, standard_schema,
\* similarity_threshold, use_adaptive, verbose, entity_centric) returns the
\* comparison result dictionary (with summary, categorized recommendations
\* and compliance level) for any two well-formed GraphSchema values and any
\* values of the two flags, without raising.
C25_OrchestratorReturns ==
    callee = "SchemaComparator.compare_schemas" =>
        /\ ~sim_result.raised
        /\ pc # "raised"

(***************************************************************************)
(* Claim about the documented example                                      *)
(***************************************************************************)
\* the values of the three string library calls for the pair
C26_LibraryValues ==
    /\ Levenshtein_ratio(str_lower(T_CUSTNUM), str_lower(T_customerId)) = 5882
    /\ Levenshtein_jaro_winkler(str_lower(T_CUSTNUM), str_lower(T_customerId)) = 8428
    /\ fuzz_token_set_ratio(str_lower(T_CUSTNUM), str_lower(T_customerId)) = 5900

\* C26: CompositeSimilarity.calculate("CUSTNUM", "customerId") with default
\* weights returns a score of at least 0.6.
C26_CustnumExample ==
    callee = "composite" /\ text1 = T_CUSTNUM /\ text2 = T_customerId =>
        /\ ~sim_result.raised
        /\ sim_result.score >= 6000

\* the call has returned in the least favourable case: no embedding model,
\* no domain score, no better pair of variations
C26_Witness ==
    /\ callee = "composite"
    /\ text1 = T_CUSTNUM
    /\ text2 = T_customerId
    /\ ~model_loaded
    /\ lib.contextual = 0
    /\ lib.abbreviation = lib.jaro_winkler
    /\ sim_result.score >= 6000

====
